---------------------------- MODULE Spec2Model ----------------------------
(***************************************************************************)
(* A model of the concurrent dispatch runtime of agentic-flow:             *)
(*   - the actor runtime of src/src/actor.rs (ActorHandle, the actor task  *)
(*     spawned by ActorSystem::spawn_actor, the EchoActor of its tests);   *)
(*   - the worker pool of src/src/worker.rs (AgenticTaskPool) executing    *)
(*     plan steps through the agent and the tool registry;                 *)
(*   - the tool registry of src/src/tool_registry.rs (ToolRegistry) over   *)
(*     the servers of src/src/mcp_manager.rs (MCPManager);                 *)
(*   - the tasks that call TodoAgent::execute_tool of src/src/agent.rs on  *)
(*     one shared manager and registry, next to a refresh of the registry, *)
(*     and the system of src/src/lib.rs that builds them;                  *)
(*   - the generic TaskPool<T> of src/src/worker.rs.                       *)
(* Each subsystem has its own specifications (ActorSpec, ActorSystemSpec,  *)
(* ActorLifeSpec, PoolSpec, PoolStepSpec, EmptyPoolSpec, GenericPoolSpec,  *)
(* RegistrySpec, RegistryCycleSpec, AgentSpec, SystemSpec); the variables  *)
(* of the other subsystems stay at their initial values.                   *)
(***************************************************************************)
EXTENDS Naturals, Sequences, FiniteSets

(***************************************************************************)
(* Bounds of the model.                                                    *)
(***************************************************************************)
\* number of concurrent tasks holding a clone of the actor's handle
NumSenders == 2
\* actors spawned in the ActorSystem
NumActors == 2
\* total number of send / call operations issued on the handle
MaxSends == 3

\* number of worker loops of the pool (worker_count)
NumWorkers == 2
\* capacity of the pool's bounded queue (capacity)
Capacity == 1
\* number of concurrent tasks calling execute_step / execute_parallel on the pool
NumCallers == 2
\* largest number of steps given to one execute_parallel
MaxSteps == 2
\* total number of plan steps the callers hand to the pool's operations
MaxTasks == 2
\* total number of plan steps when the callers only call execute_step and await its result
MaxStepTasks == 3

\* largest number of tools a server reports in list_tools
MaxServerTools == 3
\* total number of operations that change the registry or the manager
MaxRegistryOps == 3
\* operations of a registry whose servers start, are refreshed, stop and are refreshed again
MaxCycleOps == 5
\* calls of execute on the generic TaskPool
MaxGenericTasks == 3
\* tasks that call TodoAgent::execute_tool on the shared manager and registry
NumExecutors == 2
\* total number of execute_tool calls of these tasks, of refreshes next to them
MaxCalls == 2
MaxRefreshes == 2

Senders == 1..NumSenders
Workers == 1..NumWorkers
Callers == 1..NumCallers
\* the actors spawned in the ActorSystem: actor 1 is the one whose task and senders are
\* followed step by step, the others are its peers
ActorIds == 1..NumActors
Peers == 2..NumActors
\* the ids under which the executors and the refreshing task hold a mutex
Executors == (NumWorkers + 1)..(NumWorkers + NumExecutors)
Refresher == NumWorkers + NumExecutors + 1
Requester == NumWorkers + NumExecutors + 2

(***************************************************************************)
(* Actor runtime: state.                                                   *)
(***************************************************************************)
VARIABLES
    inbox,          \* the unbounded mpsc channel: messages sent, not yet received
    rxOpen,         \* the receiving half rx is alive (the actor task owns it)
    apc,            \* position of the actor task: init, recv, handling, shutdown, done
    cur,            \* the message handle_message is working on
    sent,           \* history: every message accepted by the inbox, in enqueue order
    recvLog,        \* history: ids of the messages rx.recv() returned, in order
    handledLog,     \* history: ids of the messages passed to handle_message, in order
    initCalls,      \* history: number of calls of actor.initialize()
    shutdownCalls,  \* history: number of calls of actor.shutdown()
    spc,            \* per sender task: idle, or waiting on the reply of its call
    scall,          \* per sender task: the message of its current (last) call
    chan,           \* per sender task: the oneshot channel of its current call
    sres,           \* per sender task: what its last call returned
    safter,         \* per sender task: its last call was issued after a Shutdown was sent
    sdSent,         \* some task has sent Message::Shutdown
    nSends,         \* number of send operations issued so far
    initResult,     \* history: how actor.initialize() ended: pending, ok, failed
    actors,         \* ActorSystem::actors: the ids that have a handle in the registry
    sysPc,          \* position of shutdown_all: idle, sleeping, done
    sysRet,         \* what shutdown_all returned
    peerShut,       \* per other actor of the system: a Shutdown is in its inbox
    peerPc,         \* per other actor of the system: its task is at init, running, done
    handles         \* the sender tasks that still own a clone of the ActorHandle

\* the ActorSystem and the other actors spawned in it
systemVars == <<actors, sysPc, sysRet, peerShut, peerPc, handles>>

actorVars == <<inbox, rxOpen, apc, cur, sent, recvLog, handledLog, initCalls,
               shutdownCalls, spc, scall, chan, sres, safter, sdSent, nSends, initResult,
               systemVars>>

(***************************************************************************)
(* Worker pool: state.                                                     *)
(***************************************************************************)
VARIABLES
    queue,          \* the bounded mpsc channel of WorkerTask: ids of the tasks in it
    txAlive,        \* self.sender is Some: the sending half of the queue is alive
    poolRxOpen,     \* the receiving half is alive (some worker still holds its Arc)
    tasks,          \* every WorkerTask created so far: tasks[tid] = [caller, idx, step]
    reply,          \* reply[tid]: the oneshot channel of task tid
    wpc,            \* per worker: idle, recv, task, exec, done, panicked
    wtask,          \* per worker: the task it took from the queue (0: none)
    rxLock,         \* holder of the Mutex around the receiver (0: free)
    agentLock,      \* holder of the Mutex around the agent (0: free)
    mgrLock,        \* holder of the Mutex around the MCPManager (0: free)
    regLock,        \* holder of the Mutex around the ToolRegistry (0: free)
    execLog,        \* history: the tasks whose tool invocation was started, in order
    ctxLog,         \* history: per tool invocation that returned, the keys of the
                    \* ExecutionContext the handler found and the keys it left
    cpc,            \* per caller: idle, suspended, waiting, done
    cop,            \* per caller: the operation it called: step or parallel
    csteps,         \* per caller: the steps given to its operation
    cidx,           \* per caller: position of the step whose execute_step future it polls
    csusp,          \* per caller: the send of the current step found the queue full
    ctid,           \* per caller: the task enqueued for its current step (0: none)
    cresults,       \* per caller: the results vector of execute_parallel
    cret,           \* per caller: what its operation returned
    nSteps,         \* number of steps handed to the pool's operations so far
    sdPc,           \* shutdown(): none, joining, returned
    joinIdx,        \* shutdown(): the worker whose JoinHandle it awaits
    sdRet,          \* shutdown(): what it returned
    sdTasks         \* history: the tasks enqueued or in execution when shutdown() began

poolVars == <<queue, txAlive, poolRxOpen, tasks, reply, wpc, wtask, rxLock, agentLock,
              mgrLock, regLock, execLog, ctxLog, cpc, cop, csteps, cidx, csusp, ctid,
              cresults, cret, nSteps, sdPc, joinIdx, sdRet, sdTasks>>

(***************************************************************************)
(* Tool registry and server manager: state.                                *)
(***************************************************************************)
VARIABLES
    reg_local_tools,    \* ToolRegistry::local_tools: the names that have a local handler
    reg_mcp_tool_map,   \* ToolRegistry::mcp_tool_map: key -> [server_name, tool_name]
    available_tools,    \* ToolRegistry::available_tools: the catalog, a Vec of descriptors
    active_servers,     \* MCPManager::active_servers: the names that have a connection
    server_tools,       \* per server: the tools its list_tools reports, in order
    keys_order,         \* the order in which active_servers.keys() yields the names
    last_call,          \* the last execute_tool since the last change: name, what it reached
    refreshed,          \* history: nothing was registered, started or stopped since the
                        \* last refresh_mcp_tools
    nRegOps,            \* number of operations on the registry and the manager so far
    list_fails,         \* the active servers whose list_tools request fails
    connection_of,      \* MCPManager::active_servers: the connection under each name (0: none)
    conn_state,         \* history: what became of each connection start_server recorded
    last_mgr,           \* the start_server / stop_server that was the last operation
    refresh_ret,        \* what the refresh_mcp_tools that was the last operation returned
    reg_local_handlers, \* ToolRegistry::local_tools: the handler under each name, known by
                        \* the ordinal of the registration that brought it
    before_refresh      \* history: mcp_tool_map as the refresh_mcp_tools that was the last
                        \* operation found it

registryVars == <<reg_local_tools, reg_mcp_tool_map, available_tools, active_servers,
                  server_tools, keys_order, last_call, refreshed, nRegOps, list_fails,
                  connection_of, conn_state, last_mgr, refresh_ret, reg_local_handlers,
                  before_refresh>>

(***************************************************************************)
(* Tasks that share one manager and one registry through TodoAgent: state. *)
(***************************************************************************)
VARIABLES
    epc,        \* per executor: where its TodoAgent::execute_tool call is
    etool,      \* per executor: the tool_name of the call
    eseen,      \* per executor: what the registry resolved the name to, once it is locked
    rpc,        \* where the task that refreshes the registry is
    rnames,     \* the server names the discovery loop of the refresh has yet to visit
    nCalls,     \* number of execute_tool calls started so far
    nRefreshes, \* number of refreshes started so far
    qpc         \* where the task that calls TodoAgent::process_request is

agentVars == <<epc, etool, eseen, rpc, rnames, nCalls, nRefreshes, qpc>>

\* the pool's variables other than the two mutexes every TodoAgent clone shares
poolRest == <<queue, txAlive, poolRxOpen, tasks, reply, wpc, wtask, rxLock, agentLock,
              execLog, ctxLog, cpc, cop, csteps, cidx, csusp, ctid,
              cresults, cret, nSteps, sdPc, joinIdx, sdRet, sdTasks>>

(***************************************************************************)
(* The generic TaskPool<T>: state.                                         *)
(***************************************************************************)
VARIABLES
    gqueue,      \* the mpsc channel of the pool: the tasks sent, not yet received
    gtasks,      \* history: the value of every task for which execute returned Ok
    gfailed,     \* history: number of execute calls that returned Err
    gtx,         \* self.sender is Some
    grxOpen,     \* the Receiver is alive (some worker still holds an Arc of it)
    gpc,         \* per worker: idle, recv, proc, done, panicked
    gtask,       \* per worker: the task it took from the channel (0: none)
    grxLock,     \* holder of the Mutex around the receiver (0: free)
    gcounter,    \* the AtomicUsize the processor of the tests adds the tasks to
    gprocessed,  \* history: the tasks passed to the processor and the worker that did it
    gsd,         \* shutdown(self): none, joining, returned, panicked
    gjoin        \* shutdown(self): the worker whose JoinHandle it awaits

genericVars == <<gqueue, gtasks, gfailed, gtx, grxOpen, gpc, gtask, grxLock, gcounter,
                 gprocessed, gsd, gjoin>>

vars == <<actorVars, poolVars, registryVars, agentVars, genericVars>>

\* tool names and params the sender tasks put in ExecuteTool (test: tool_{i}, {"index": i})
ActorToolNames == {"tool_0", "tool_1"}
ActorParams == {[index |-> 0], [index |-> 1]}

NoMsg == [kind |-> "None", tool_name |-> "", params |-> [index |-> 0], respond_to |-> 0, id |-> 0]

\* Message::ExecuteTool { tool_name, params, respond_to }
ExecuteToolMsg(t, p, s) ==
    [kind |-> "ExecuteTool", tool_name |-> t, params |-> p, respond_to |-> s, id |-> 0]

\* Message::HealthCheck { respond_to }
HealthCheckMsg(s) ==
    [kind |-> "HealthCheck", tool_name |-> "", params |-> [index |-> 0], respond_to |-> s, id |-> 0]

\* Message::Shutdown
ShutdownMsg ==
    [kind |-> "Shutdown", tool_name |-> "", params |-> [index |-> 0], respond_to |-> 0, id |-> 0]

\* a fresh oneshot channel: no value sent, the Sender alive
NewChan == [vals |-> <<>>, txDropped |-> FALSE]

NoResult == [kind |-> "none"]
ValueResult(v) == [kind |-> "value", val |-> v]
ErrResult(e) == [kind |-> "err", err |-> e]

Range(q) == {q[i] : i \in 1..Len(q)}

KeepSenders(ch, msgs) == ch
\* dropping a message drops the oneshot Sender it carries: the channels of `msgs` lose their Sender
DropSenders(ch, msgs) ==
    [s \in Senders |->
        IF \E m \in msgs : m.kind # "Shutdown" /\ m.respond_to = s
        THEN [ch[s] EXCEPT !.txDropped = TRUE]
        ELSE ch[s]]

ActorInit ==
    /\ inbox = <<>>
    /\ rxOpen = TRUE
    /\ apc = "init"
    /\ cur = NoMsg
    /\ sent = <<>>
    /\ recvLog = <<>>
    /\ handledLog = <<>>
    /\ initCalls = 0
    /\ shutdownCalls = 0
    /\ spc = [s \in Senders |-> "idle"]
    /\ scall = [s \in Senders |-> NoMsg]
    /\ chan = [s \in Senders |-> NewChan]
    /\ sres = [s \in Senders |-> NoResult]
    /\ safter = [s \in Senders |-> FALSE]
    /\ sdSent = FALSE
    /\ nSends = 0
    /\ initResult = "pending"
    /\ actors = ActorIds
    /\ sysPc = "idle"
    /\ sysRet = NoResult
    /\ peerShut = [a \in Peers |-> FALSE]
    /\ peerPc = [a \in Peers |-> "init"]
    /\ handles = Senders

(***************************************************************************)
(* ActorHandle: send and call.                                             *)
(***************************************************************************)
\* UnboundedSender::send: the message is accepted while the receiving half is alive
AlwaysAccepted(open) == TRUE
SendAccepted(open) == open

\* ActorHandle::call (and the send-then-await of the tests): a fresh oneshot channel, the
\* message built around its Sender, send, then the wait for the reply.  A failed send
\* returns the error at once (the `?`), and the message with its Sender is dropped.
Call(s, m) ==
    /\ s \in handles
    /\ spc[s] = "idle"
    /\ nSends < MaxSends
    /\ nSends' = nSends + 1
    /\ scall' = [scall EXCEPT ![s] = m]
    /\ safter' = [safter EXCEPT ![s] = sdSent]
    /\ IF SendAccepted(rxOpen)
       THEN /\ inbox' = Append(inbox, [m EXCEPT !.id = Len(sent) + 1])
            /\ sent' = Append(sent, [m EXCEPT !.id = Len(sent) + 1])
            /\ chan' = [chan EXCEPT ![s] = NewChan]
            /\ spc' = [spc EXCEPT ![s] = "waiting"]
            /\ sres' = [sres EXCEPT ![s] = NoResult]
       ELSE /\ chan' = [chan EXCEPT ![s] = [vals |-> <<>>, txDropped |-> TRUE]]
            /\ sres' = [sres EXCEPT ![s] = ErrResult("Failed to send message")]
            /\ UNCHANGED <<inbox, sent, spc>>
    /\ UNCHANGED <<rxOpen, apc, cur, recvLog, handledLog, initCalls, shutdownCalls, sdSent>>
    /\ UNCHANGED <<initResult, systemVars, poolVars, registryVars, agentVars, genericVars>>

SendExecuteTool(s) ==
    \E t \in ActorToolNames, p \in ActorParams : Call(s, ExecuteToolMsg(t, p, s))

\* ActorHandle::health_check
HealthCheck(s) == Call(s, HealthCheckMsg(s))

\* handle.send(Message::Shutdown): fire and forget
SendShutdown(s) ==
    /\ s \in handles
    /\ spc[s] = "idle"
    /\ nSends < MaxSends
    /\ nSends' = nSends + 1
    /\ sdSent' = TRUE
    /\ IF SendAccepted(rxOpen)
       THEN /\ inbox' = Append(inbox, [ShutdownMsg EXCEPT !.id = Len(sent) + 1])
            /\ sent' = Append(sent, [ShutdownMsg EXCEPT !.id = Len(sent) + 1])
       ELSE UNCHANGED <<inbox, sent>>
    /\ UNCHANGED <<rxOpen, apc, cur, recvLog, handledLog, initCalls, shutdownCalls,
                   spc, scall, chan, sres, safter>>
    /\ UNCHANGED <<initResult, systemVars, poolVars, registryVars, agentVars, genericVars>>

\* rx.await of call: the value sent on the oneshot channel, or the error once its Sender
\* was dropped without a value; suspended until one of the two happened
AwaitReply(s) ==
    /\ spc[s] = "waiting"
    /\ \/ /\ chan[s].vals # <<>>
          /\ sres' = [sres EXCEPT ![s] = ValueResult(Head(chan[s].vals))]
       \/ /\ chan[s].vals = <<>>
          /\ chan[s].txDropped
          /\ sres' = [sres EXCEPT ![s] = ErrResult("Failed to receive response")]
    /\ spc' = [spc EXCEPT ![s] = "idle"]
    /\ UNCHANGED <<inbox, rxOpen, apc, cur, sent, recvLog, handledLog, initCalls,
                   shutdownCalls, scall, chan, safter, sdSent, nSends>>
    /\ UNCHANGED <<initResult, systemVars, poolVars, registryVars, agentVars, genericVars>>

(***************************************************************************)
(* The actor task spawned by ActorSystem::spawn_actor.                     *)
(***************************************************************************)
\* the end of the actor task drops rx: the channel closes and the messages still in it
\* are dropped with the reply Senders they carry
DropReceiver ==
    /\ rxOpen' = FALSE
    /\ inbox' = <<>>
    /\ chan' = DropSenders(chan, Range(inbox))

\* where the task goes after actor.initialize() returned: into the loop, or, on Err, to
\* its end (`return`)
EnterLoopAnyway(ok) == "recv"
AfterInitialize(ok) == IF ok THEN "recv" ELSE "done"

\* actor.initialize(): on Err the task returns without entering the loop
ActorInitialize ==
    /\ apc = "init"
    /\ initCalls' = initCalls + 1
    /\ \E ok \in BOOLEAN :
         /\ initResult' = IF ok THEN "ok" ELSE "failed"
         /\ apc' = AfterInitialize(ok)
         /\ IF apc' = "done"
            THEN DropReceiver
            ELSE UNCHANGED <<rxOpen, inbox, chan>>
    /\ UNCHANGED <<cur, sent, recvLog, handledLog, shutdownCalls, spc, scall, sres,
                   safter, sdSent, nSends>>
    /\ UNCHANGED <<systemVars, poolVars, registryVars, agentVars, genericVars>>

\* the message rx.recv() yields from the inbox q
RecvLast(q) == q[Len(q)]
RecvMsg(q) == Head(q)

\* the match on Message::Shutdown in the loop
MatchNothing(m) == FALSE
IsShutdown(m) == m.kind = "Shutdown"

\* while let Some(message) = rx.recv().await { match message { ... } }
ActorRecv ==
    /\ apc = "recv"
    /\ inbox # <<>>
    /\ LET m == RecvMsg(inbox) IN
         /\ inbox' = SelectSeq(inbox, LAMBDA x : x.id # m.id)  \* m leaves the inbox
         /\ recvLog' = Append(recvLog, m.id)
         /\ IF IsShutdown(m)
            THEN /\ apc' = "shutdown"
                 /\ UNCHANGED <<cur, handledLog>>
            ELSE /\ apc' = "handling"
                 /\ cur' = m
                 /\ handledLog' = Append(handledLog, m.id)
    /\ UNCHANGED <<rxOpen, sent, initCalls, shutdownCalls, spc, scall, chan, sres,
                   safter, sdSent, nSends>>
    /\ UNCHANGED <<initResult, systemVars, poolVars, registryVars, agentVars, genericVars>>

\* EchoActor::handle_message: the reply computed from the message
EchoReply(m) ==
    IF m.kind = "ExecuteTool"
    THEN [tool |-> m.tool_name, params |-> m.params]
    ELSE [healthy |-> TRUE]

\* the oneshot Sender the reply is sent on: the message's own respond_to
ReplyToFirst(m) == 1
ReplyTo(m) == m.respond_to

\* where the task goes after handle_message returned: an Err is printed, and the loop
\* goes on to the next recv() either way
ExitOnError(ok) == IF ok THEN "recv" ELSE "done"
AfterHandle(ok) == "recv"

\* handle_message returns: Ok after replying on respond_to (EchoActor), or Err, the
\* message dropped unanswered; the loop logs an Err and continues
ActorHandleDone ==
    /\ apc = "handling"
    /\ \E ok \in BOOLEAN :
         /\ IF ok
            THEN chan' = [chan EXCEPT ![ReplyTo(cur)].vals = Append(@, EchoReply(cur))]
            ELSE chan' = DropSenders(chan, {cur})
         /\ apc' = AfterHandle(ok)
    /\ cur' = NoMsg
    /\ UNCHANGED <<inbox, rxOpen, sent, recvLog, handledLog, initCalls, shutdownCalls,
                   spc, scall, sres, safter, sdSent, nSends>>
    /\ UNCHANGED <<initResult, systemVars, poolVars, registryVars, agentVars, genericVars>>

\* Message::Shutdown => { let _ = actor.shutdown().await; break; } and the task ends
ActorShutdown ==
    /\ apc = "shutdown"
    /\ shutdownCalls' = shutdownCalls + 1
    /\ apc' = "done"
    /\ DropReceiver
    /\ UNCHANGED <<cur, sent, recvLog, handledLog, initCalls, spc, scall, sres,
                   safter, sdSent, nSends>>
    /\ UNCHANGED <<initResult, systemVars, poolVars, registryVars, agentVars, genericVars>>

(***************************************************************************)
(* Worker pool: plan steps, tools, results.                                *)
(***************************************************************************)
\* PlanStep { tool_name, params }: the steps the callers submit
PlanSteps ==
    {[tool_name |-> "echo", params |-> [text |-> "one"]],
     [tool_name |-> "echo", params |-> [text |-> "two"]],
     [tool_name |-> "custom", params |-> [text |-> "one"]],
     [tool_name |-> "missing", params |-> [text |-> "one"]]}

\* the argument lists of execute_parallel
StepLists == UNION {[1..n -> PlanSteps] : n \in 0..MaxSteps}

Ok(v) == [ok |-> TRUE, val |-> v]
\* AgenticFlowError::ToolError / AgenticFlowError::ExecutionError
ToolError(msg) == [ok |-> FALSE, err |-> [type |-> "ToolError", msg |-> msg]]
ExecutionError(msg) == [ok |-> FALSE, err |-> [type |-> "ExecutionError", msg |-> msg]]
NoReturn == [pending |-> TRUE]

\* the registry of the pool's agent: the local handlers registered, no remote tool
local_tools == {"echo", "custom"}
mcp_tool_map == {}

\* LocalTool::execute.  echo is the EchoTool of the tests; custom stands for any other
\* implementation of the trait: it returns a value or an error (or panics, see WorkerPanic)
LocalExecute(name, params) ==
    IF name = "echo"
    THEN IF "text" \in DOMAIN params
         THEN {Ok([text |-> params.text])}
         ELSE {ToolError("text")}
    ELSE {Ok([result |-> name, params |-> params]), ToolError("custom tool failed")}

\* ToolRegistry::execute_tool: local first, then remote, else not found
ToolResults(step) ==
    IF step.tool_name \in local_tools
    THEN LocalExecute(step.tool_name, step.params)
    ELSE IF step.tool_name \in mcp_tool_map
         THEN {Ok([remote |-> step.tool_name])}
         ELSE {ToolError("Tool '" \o step.tool_name \o "' not found")}

\* `let mut context = ExecutionContext::new()` in the body of the worker's loop: the
\* context handed to the handler of a task, as the set of its keys
WorkerContext == {}

\* the keys the handler sets in the context: EchoTool sets "echoed_text" before it
\* returns Ok
HandlerWrites(step, r) == IF step.tool_name = "echo" /\ r.ok THEN {"echoed_text"} ELSE {}

\* a handler that may panic
MayPanic(step) == step.tool_name = "custom"

\* tokio::sync::oneshot::channel() of execute_step
NewReply == [vals |-> <<>>, txDropped |-> FALSE, rxDropped |-> FALSE]

\* the workers whose loop is still running, w apart
OtherLiveWorkers(w) == {v \in Workers \ {w} : wpc[v] \notin {"done", "panicked"}}

\* the reply channels after the WorkerTasks `tids` were dropped without an answer
KeepReplies(rp, tids) == rp
DropReplies(rp, tids) ==
    [t \in 1..Len(rp) |-> IF t \in tids THEN [rp[t] EXCEPT !.txDropped = TRUE] ELSE rp[t]]

\* response.send(result): the value reaches the channel unless its Receiver is gone
SendReply(rp, t, r) ==
    [rp EXCEPT ![t].vals = IF rp[t].rxDropped THEN @ ELSE Append(@, r)]

\* the Receiver after the constructor: every worker task holds a clone of the Arc around
\* it, the constructor's own Arc is dropped when it returns
ReceiverAlwaysKept(worker_count) == TRUE
ReceiverKept(worker_count) == worker_count > 0

\* new_with_capacity(agent, worker_count, _): `for worker_id in 0..worker_count` spawns
\* the workers
PoolInitWith(worker_count) ==
    /\ queue = <<>>
    /\ txAlive = TRUE
    /\ poolRxOpen = ReceiverKept(worker_count)
    /\ tasks = <<>>
    /\ reply = <<>>
    /\ wpc = [w \in Workers |-> IF w <= worker_count THEN "idle" ELSE "none"]
    /\ wtask = [w \in Workers |-> 0]
    /\ rxLock = 0
    /\ agentLock = 0
    /\ mgrLock = 0
    /\ regLock = 0
    /\ execLog = <<>>
    /\ ctxLog = <<>>
    /\ cpc = [c \in Callers |-> "idle"]
    /\ cop = [c \in Callers |-> "step"]
    /\ csteps = [c \in Callers |-> <<>>]
    /\ cidx = [c \in Callers |-> 0]
    /\ csusp = [c \in Callers |-> FALSE]
    /\ ctid = [c \in Callers |-> 0]
    /\ cresults = [c \in Callers |-> <<>>]
    /\ cret = [c \in Callers |-> NoReturn]
    /\ nSteps = 0
    /\ sdPc = "none"
    /\ joinIdx = 0
    /\ sdRet = NoReturn
    /\ sdTasks = {}

PoolInit == PoolInitWith(NumWorkers)

\* is_active(): self.sender.is_some()
is_active == txAlive

\* the worker tasks the constructor spawned
SpawnedWorkers == {w \in Workers : wpc[w] # "none"}

workerVars == <<wpc, wtask, rxLock, agentLock, mgrLock, regLock, execLog, ctxLog>>
callerVars == <<cpc, cop, csteps, cidx, csusp, ctid, cresults, cret, nSteps>>
shutdownVars == <<sdPc, joinIdx, sdRet, sdTasks>>

(***************************************************************************)
(* Worker pool: the callers (execute_step, execute_parallel).              *)
(***************************************************************************)
\* what a call counts against MaxTasks: its steps (an empty execute_parallel counts one)
StepCost(steps) == IF steps = <<>> THEN 1 ELSE Len(steps)

\* whether sender.send(worker_task) finds room in the queue q
AlwaysRoom(q) == TRUE
HasRoom(q) == Len(q) < Capacity

\* the future of execute_step for the step at position i is polled: the WorkerTask is built
\* around a fresh reply channel and sender.send(worker_task).await either fails (queue
\* closed: "Task pool is shut down", which execute_parallel returns at once), or puts the
\* task in the queue (the caller then waits on response_rx), or finds the queue full and
\* suspends the caller.  `resumed`: the send was suspended before.
PollStep(c, steps, i, resumed) ==
    /\ cidx' = [cidx EXCEPT ![c] = i]
    /\ IF ~poolRxOpen
       THEN /\ cpc' = [cpc EXCEPT ![c] = "done"]
            /\ cret' = [cret EXCEPT ![c] = ExecutionError("Task pool is shut down")]
            /\ csusp' = [csusp EXCEPT ![c] = resumed]
            /\ ctid' = [ctid EXCEPT ![c] = 0]
            /\ UNCHANGED <<queue, tasks, reply>>
       ELSE IF HasRoom(queue)
            THEN /\ tasks' = Append(tasks, [caller |-> c, idx |-> i, step |-> steps[i]])
                 /\ reply' = Append(reply, NewReply)
                 /\ queue' = Append(queue, Len(tasks) + 1)
                 /\ ctid' = [ctid EXCEPT ![c] = Len(tasks) + 1]
                 /\ cpc' = [cpc EXCEPT ![c] = "waiting"]
                 /\ cret' = [cret EXCEPT ![c] = NoReturn]
                 /\ csusp' = [csusp EXCEPT ![c] = resumed]
            ELSE /\ cpc' = [cpc EXCEPT ![c] = "suspended"]
                 /\ cret' = [cret EXCEPT ![c] = NoReturn]
                 /\ csusp' = [csusp EXCEPT ![c] = TRUE]
                 /\ ctid' = [ctid EXCEPT ![c] = 0]
                 /\ UNCHANGED <<queue, tasks, reply>>

\* a caller starts an operation on the pool (it borrows the pool: not after shutdown(self)).
\* execute_parallel: its first loop only builds the futures of execute_step (a future does
\* nothing until it is awaited); its second loop awaits them one by one, so only the step
\* at position 1 is sent now
StartCall(c, op, steps, budget) ==
    /\ cpc[c] \in {"idle", "done"}
    /\ sdPc = "none"
    /\ nSteps + StepCost(steps) <= budget
    /\ nSteps' = nSteps + StepCost(steps)
    /\ cop' = [cop EXCEPT ![c] = op]
    /\ csteps' = [csteps EXCEPT ![c] = steps]
    /\ cresults' = [cresults EXCEPT ![c] = <<>>]
    /\ IF steps = <<>>
       THEN /\ cpc' = [cpc EXCEPT ![c] = "done"]
            /\ cidx' = [cidx EXCEPT ![c] = 0]
            /\ cret' = [cret EXCEPT ![c] = Ok(<<>>)]
            /\ csusp' = [csusp EXCEPT ![c] = FALSE]
            /\ UNCHANGED <<queue, tasks, reply, ctid>>
       ELSE PollStep(c, steps, 1, FALSE)
    /\ UNCHANGED <<txAlive, poolRxOpen, workerVars, shutdownVars>>
    /\ UNCHANGED <<actorVars, registryVars, agentVars, genericVars>>

\* pool.execute_step(step)
ExecuteStep(c) == \E step \in PlanSteps : StartCall(c, "step", <<step>>, MaxTasks)

\* pool.execute_step(step).await by callers that use no other operation of the pool
ExecuteStepAwaited(c) ==
    \E step \in PlanSteps : StartCall(c, "step", <<step>>, MaxStepTasks)

\* pool.execute_parallel(steps)
ExecuteParallel(c) == \E steps \in StepLists : StartCall(c, "parallel", steps, MaxTasks)

\* a send suspended on a full queue completes once the queue has room or is closed
StepResume(c) ==
    /\ cpc[c] = "suspended"
    /\ HasRoom(queue) \/ ~poolRxOpen
    /\ PollStep(c, csteps[c], cidx[c], TRUE)
    /\ UNCHANGED <<txAlive, poolRxOpen, workerVars, shutdownVars, cop, csteps, cresults, nSteps>>
    /\ UNCHANGED <<actorVars, registryVars, agentVars, genericVars>>

\* results.push(value)
PushFront(results, v) == <<v>> \o results
PushResult(results, v) == Append(results, v)

\* what response_rx.await yields on the reply channel ch: the worker's result, or
\* "Worker disconnected" once the Sender was dropped without a value
AwaitedAsShutDown(ch) ==
    IF ch.vals # <<>> THEN Head(ch.vals) ELSE ExecutionError("Task pool is shut down")
Awaited(ch) ==
    IF ch.vals # <<>> THEN Head(ch.vals) ELSE ExecutionError("Worker disconnected")

\* response_rx.await completes with r.  execute_step returns r; execute_parallel pushes
\* the value and awaits the next handle (which sends the next step), returns the vector
\* after the last one, and returns an error at once (handle.await?), dropping the handles
\* it has not awaited yet
StepAwait(c) ==
    /\ cpc[c] = "waiting"
    /\ reply[ctid[c]].vals # <<>> \/ reply[ctid[c]].txDropped
    /\ LET r == Awaited(reply[ctid[c]]) IN
         IF cop[c] = "parallel" /\ r.ok
         THEN /\ cresults' = [cresults EXCEPT ![c] = PushResult(@, r.val)]
              /\ IF cidx[c] < Len(csteps[c])
                 THEN PollStep(c, csteps[c], cidx[c] + 1, FALSE)
                 ELSE /\ cpc' = [cpc EXCEPT ![c] = "done"]
                      /\ cret' = [cret EXCEPT ![c] = Ok(PushResult(cresults[c], r.val))]
                      /\ UNCHANGED <<queue, tasks, reply, ctid, cidx, csusp>>
         ELSE /\ cpc' = [cpc EXCEPT ![c] = "done"]
              /\ cret' = [cret EXCEPT ![c] = r]
              /\ UNCHANGED <<queue, tasks, reply, ctid, cidx, csusp, cresults>>
    /\ UNCHANGED <<txAlive, poolRxOpen, workerVars, shutdownVars, cop, csteps, nSteps>>
    /\ UNCHANGED <<actorVars, registryVars, agentVars, genericVars>>

\* the caller drops the future of its operation at an await point (select!, timeout, abort):
\* a task already in the queue stays there, the Receiver of its reply is gone
CancelCall(c) ==
    /\ cpc[c] \in {"suspended", "waiting"}
    /\ cpc' = [cpc EXCEPT ![c] = "idle"]
    /\ reply' = IF cpc[c] = "waiting"
                THEN [reply EXCEPT ![ctid[c]].rxDropped = TRUE]
                ELSE reply
    /\ UNCHANGED <<queue, txAlive, poolRxOpen, tasks, workerVars, shutdownVars,
                   cop, csteps, cidx, csusp, ctid, cresults, cret, nSteps>>
    /\ UNCHANGED <<actorVars, registryVars, agentVars, genericVars>>

(***************************************************************************)
(* Worker pool: the worker loops.                                          *)
(***************************************************************************)
\* receiver.lock().await of the while-let scrutinee
WorkerLockReceiver(w) ==
    /\ wpc[w] = "idle"
    /\ rxLock = 0
    /\ rxLock' = w
    /\ wpc' = [wpc EXCEPT ![w] = "recv"]
    /\ UNCHANGED <<queue, txAlive, poolRxOpen, tasks, reply, wtask, agentLock, mgrLock,
                   regLock, execLog, ctxLog, callerVars, shutdownVars>>
    /\ UNCHANGED <<actorVars, registryVars, agentVars, genericVars>>

\* the receiver guard once recv() has returned a task.  It is a temporary of the
\* while-let scrutinee, dropped at the end of the loop body: the worker keeps it while it
\* executes the task
GuardAfterRecv(w) == w

\* the queue once recv() has returned its head: the task is moved out of the channel
KeepHead(q) == q
AfterRecv(q) == Tail(q)

\* .recv().await returns Some(worker_task)
WorkerRecv(w) ==
    /\ wpc[w] = "recv"
    /\ queue # <<>>
    /\ wtask' = [wtask EXCEPT ![w] = Head(queue)]
    /\ queue' = AfterRecv(queue)
    /\ rxLock' = GuardAfterRecv(w)
    /\ wpc' = [wpc EXCEPT ![w] = "task"]
    /\ UNCHANGED <<txAlive, poolRxOpen, tasks, reply, agentLock, mgrLock, regLock,
                   execLog, ctxLog, callerVars, shutdownVars>>
    /\ UNCHANGED <<actorVars, registryVars, agentVars, genericVars>>

\* .recv().await returns None (queue closed and empty): the loop ends, the guard and the
\* worker's Arc of the receiver are dropped; the last Arc drops the receiver
WorkerExit(w) ==
    /\ wpc[w] = "recv"
    /\ queue = <<>>
    /\ ~txAlive
    /\ rxLock' = 0
    /\ wpc' = [wpc EXCEPT ![w] = "done"]
    /\ poolRxOpen' = (poolRxOpen /\ OtherLiveWorkers(w) # {})
    /\ UNCHANGED <<queue, txAlive, tasks, reply, wtask, agentLock, mgrLock, regLock,
                   execLog, ctxLog, callerVars, shutdownVars>>
    /\ UNCHANGED <<actorVars, registryVars, agentVars, genericVars>>

\* agent.lock().await, then in agent.execute_tool self.manager.lock().await and
\* self.tool_registry.lock().await: the three guards are taken one after the other and
\* held until the tool invocation returns.  No other task of the pool takes any of them in
\* between (a worker gets here holding the receiver guard), so they are taken in one step.
WorkerBeginTool(w) ==
    /\ wpc[w] = "task"
    /\ agentLock = 0 /\ mgrLock = 0 /\ regLock = 0
    /\ agentLock' = w
    /\ mgrLock' = w
    /\ regLock' = w
    /\ wpc' = [wpc EXCEPT ![w] = "exec"]
    /\ execLog' = Append(execLog, wtask[w])
    /\ UNCHANGED <<queue, txAlive, poolRxOpen, tasks, reply, wtask, rxLock, ctxLog,
                   callerVars, shutdownVars>>
    /\ UNCHANGED <<actorVars, registryVars, agentVars, genericVars>>

\* the reply channel the worker answers on: the one of the task it took
ReplyOfFirstTask(w) == 1
ResponseOf(w) == wtask[w]

\* where the worker goes after `let _ = worker_task.response.send(result)`: the result,
\* Ok or Err, is only sent; the loop goes on to its next iteration
StopOnError(r) == IF r.ok THEN "idle" ELSE "done"
AfterSend(r) == "idle"

\* the tool invocation returns: the three guards are dropped, the result is sent on the
\* task's reply channel, the loop body ends and drops the receiver guard
WorkerFinish(w) ==
    /\ wpc[w] = "exec"
    /\ \E r \in ToolResults(tasks[wtask[w]].step) :
         /\ reply' = SendReply(reply, ResponseOf(w), r)
         /\ wpc' = [wpc EXCEPT ![w] = AfterSend(r)]
         /\ ctxLog' = Append(ctxLog,
                             [task |-> wtask[w], found |-> WorkerContext,
                              left |-> WorkerContext
                                          \cup HandlerWrites(tasks[wtask[w]].step, r)])
    /\ regLock' = 0
    /\ mgrLock' = 0
    /\ agentLock' = 0
    /\ rxLock' = 0
    /\ wtask' = [wtask EXCEPT ![w] = 0]
    /\ UNCHANGED <<queue, txAlive, poolRxOpen, tasks, execLog, callerVars, shutdownVars>>
    /\ UNCHANGED <<actorVars, registryVars, agentVars, genericVars>>

\* the handler panics: the worker task unwinds, dropping its guards, the WorkerTask with
\* its reply Sender and its Arc of the receiver; the last Arc drops the receiver, which
\* closes the queue and drops the tasks left in it
WorkerPanic(w) ==
    /\ wpc[w] = "exec"
    /\ MayPanic(tasks[wtask[w]].step)
    /\ regLock' = 0
    /\ mgrLock' = 0
    /\ agentLock' = 0
    /\ rxLock' = 0
    /\ wtask' = [wtask EXCEPT ![w] = 0]
    /\ wpc' = [wpc EXCEPT ![w] = "panicked"]
    /\ IF OtherLiveWorkers(w) = {}
       THEN /\ poolRxOpen' = FALSE
            /\ queue' = <<>>
            /\ reply' = DropReplies(reply, Range(queue) \cup {wtask[w]})
       ELSE /\ reply' = DropReplies(reply, {wtask[w]})
            /\ UNCHANGED <<poolRxOpen, queue>>
    /\ UNCHANGED <<txAlive, tasks, execLog, ctxLog, callerVars, shutdownVars>>
    /\ UNCHANGED <<actorVars, registryVars, agentVars, genericVars>>

(***************************************************************************)
(* Worker pool: shutdown(self).                                            *)
(***************************************************************************)
\* self.sender.take(): the sending half is dropped.  shutdown takes the pool by value, so
\* no execute_step / execute_parallel future borrows it any more
ShutdownBegin ==
    /\ sdPc = "none"
    /\ \A c \in Callers : cpc[c] \in {"idle", "done"}
    /\ txAlive' = FALSE
    /\ IF SpawnedWorkers = {}
       THEN /\ sdPc' = "returned"
            /\ sdRet' = Ok(<<>>)
            /\ joinIdx' = 0
       ELSE /\ sdPc' = "joining"
            /\ joinIdx' = 1
            /\ UNCHANGED sdRet
    /\ sdTasks' = Range(queue) \cup {wtask[w] : w \in {v \in Workers : wtask[v] # 0}}
    /\ UNCHANGED <<queue, poolRxOpen, tasks, reply, workerVars, callerVars>>
    /\ UNCHANGED <<actorVars, registryVars, agentVars, genericVars>>

\* for worker in self.workers { worker.await.map_err(..)?; }: the JoinHandle of a worker
\* that panicked yields an error, which returns from shutdown at once
ShutdownJoin ==
    /\ sdPc = "joining"
    /\ wpc[joinIdx] \in {"done", "panicked"}
    /\ IF wpc[joinIdx] = "panicked"
       THEN /\ sdPc' = "returned"
            /\ sdRet' = ExecutionError("Worker error")
            /\ UNCHANGED joinIdx
       ELSE IF joinIdx = Cardinality(SpawnedWorkers)
            THEN /\ sdPc' = "returned"
                 /\ sdRet' = Ok(<<>>)
                 /\ UNCHANGED joinIdx
            ELSE /\ joinIdx' = joinIdx + 1
                 /\ UNCHANGED <<sdPc, sdRet>>
    /\ UNCHANGED <<queue, txAlive, poolRxOpen, tasks, reply, workerVars, callerVars, sdTasks>>
    /\ UNCHANGED <<actorVars, registryVars, agentVars, genericVars>>

PoolNext ==
    \/ \E c \in Callers : ExecuteStep(c)
    \/ \E c \in Callers : ExecuteParallel(c)
    \/ \E c \in Callers : StepResume(c)
    \/ \E c \in Callers : StepAwait(c)
    \/ \E c \in Callers : CancelCall(c)
    \/ \E w \in Workers : WorkerLockReceiver(w)
    \/ \E w \in Workers : WorkerRecv(w)
    \/ \E w \in Workers : WorkerExit(w)
    \/ \E w \in Workers : WorkerBeginTool(w)
    \/ \E w \in Workers : WorkerFinish(w)
    \/ \E w \in Workers : WorkerPanic(w)
    \/ ShutdownBegin
    \/ ShutdownJoin

(***************************************************************************)
(* Tool registry and server manager.                                       *)
(***************************************************************************)
\* the servers of MCPConfig::servers, the tool names handlers and servers carry
ServerNames == {"A", "B"}
ToolNames == {"t", "u"}

\* what list_tools of a server can report
ToolLists == UNION {[1..n -> ToolNames] : n \in 0..MaxServerTools}
\* the lists of at most one tool
ShortToolLists == {tools \in ToolLists : Len(tools) <= 1}

\* format!("{}::{}", server_name, tool_name)
Namespaced(server_name, tool_name) == server_name \o "::" \o tool_name

\* the orders in which the keys of a HashMap holding `names` can be enumerated
KeyOrders(names) ==
    {o \in UNION {[1..n -> names] : n \in {Cardinality(names)}} :
        \A i, j \in 1..Len(o) : i # j => o[i] # o[j]}

\* ToolDescriptor::Local { name, .. } / ToolDescriptor::MCP { name, .., server_name }
LocalDescriptor(name) == [kind |-> "Local", name |-> name, server_name |-> ""]
McpDescriptor(name, server_name) == [kind |-> "MCP", name |-> name, server_name |-> server_name]

\* MCPToolDescriptor { server_name, tool_name, .. }
MCPToolDescriptor(server_name, tool_name) == [server_name |-> server_name, tool_name |-> tool_name]

\* HashMap::insert(key, value): a value already under the key is replaced
InsertIfAbsent(map, key, value) ==
    [k \in DOMAIN map \cup {key} |-> IF k \in DOMAIN map THEN map[k] ELSE value]
MapInsert(map, key, value) ==
    [k \in DOMAIN map \cup {key} |-> IF k = key THEN value ELSE map[k]]

NoCall == [name |-> "", outcome |-> [kind |-> "none"], handler |-> 0, writes |-> {},
           error |-> [kind |-> "none"]]
NoMgrCall == [op |-> "none"]

\* AgenticFlowError::ServerNotFound
ServerNotFound == [ok |-> FALSE, err |-> [type |-> "ServerNotFound", msg |-> ""]]

RegistryInit ==
    /\ reg_local_tools = {}
    /\ reg_mcp_tool_map = <<>>
    /\ available_tools = <<>>
    /\ active_servers = {}
    /\ server_tools = [s \in ServerNames |-> <<>>]
    /\ keys_order = <<>>
    /\ last_call = NoCall
    /\ refreshed = FALSE
    /\ nRegOps = 0
    /\ list_fails = {}
    /\ connection_of = [s \in ServerNames |-> 0]
    /\ conn_state = <<>>
    /\ last_mgr = NoMgrCall
    /\ refresh_ret = NoReturn
    /\ reg_local_handlers = <<>>
    /\ before_refresh = <<>>

\* the positions of the catalog that hold a Local descriptor
LocalEntries(avail) == {i \in 1..Len(avail) : avail[i].kind = "Local"}

\* the Box<dyn LocalTool> handed to register_local_tool: the handler of the n-th
\* registration is handler n
NewHandler == Cardinality(LocalEntries(available_tools)) + 1

\* register_local_tool(tool): the handler is inserted under its name (replacing a handler
\* already there), and a Local descriptor is pushed to the catalog
RegisterLocalToolWithin(name, budget) ==
    /\ nRegOps < budget
    /\ nRegOps' = nRegOps + 1
    /\ reg_local_tools' = reg_local_tools \cup {name}
    /\ reg_local_handlers' = MapInsert(reg_local_handlers, name, NewHandler)
    /\ available_tools' = Append(available_tools, LocalDescriptor(name))
    /\ last_call' = NoCall
    /\ refreshed' = FALSE
    /\ last_mgr' = NoMgrCall
    /\ refresh_ret' = NoReturn
    /\ before_refresh' = <<>>
    /\ UNCHANGED <<reg_mcp_tool_map, active_servers, server_tools, keys_order, list_fails,
                   connection_of, conn_state>>
    /\ UNCHANGED <<actorVars, poolVars, agentVars, genericVars>>

RegisterLocalTool(name) == RegisterLocalToolWithin(name, MaxRegistryOps)

\* how an attempt to launch a server ends: TokioChildProcess::new fails (the `?` returns
\* the ToolError), serve(..) fails (the unwrap() on its result panics), or the client runs
StartOutcomes == {"spawn_failed", "serve_failed", "started"}

\* what start_server returns
StartResult(outcome) ==
    CASE outcome = "spawn_failed" -> ToolError("Failed to start server")
      [] outcome = "serve_failed" -> [panicked |-> TRUE]
      [] outcome = "started" -> Ok(<<>>)

\* active_servers.insert(name, connection): the connection that was under the name is
\* replaced, and the replaced value is dropped
ReplacedByInsert(states, id) ==
    IF id = 0 THEN states ELSE [states EXCEPT ![id] = "dropped"]

\* start_server(server_name) for a configured server. When the client runs, its
\* connection is inserted in active_servers; `tools` is what its list_tools reports from
\* now on, unless `fails`, when its list_tools requests fail
StartServerWithin(server_name, outcome, tools, fails, budget) ==
    /\ nRegOps < budget
    /\ nRegOps' = nRegOps + 1
    /\ (outcome # "started" \/ fails) => tools = <<>>
    /\ outcome # "started" => ~fails
    /\ last_mgr' = [op |-> "start_server", name |-> server_name,
                    result |-> StartResult(outcome),
                    was_active |-> server_name \in active_servers, again |-> FALSE]
    /\ IF outcome = "started"
       THEN /\ active_servers' = active_servers \cup {server_name}
            /\ server_tools' = [server_tools EXCEPT ![server_name] = tools]
            /\ list_fails' = IF fails THEN list_fails \cup {server_name}
                             ELSE list_fails \ {server_name}
            /\ conn_state' = Append(ReplacedByInsert(conn_state, connection_of[server_name]),
                                    "live")
            /\ connection_of' = [connection_of EXCEPT ![server_name] = Len(conn_state) + 1]
            /\ keys_order' \in KeyOrders(active_servers')
       ELSE UNCHANGED <<active_servers, server_tools, list_fails, conn_state, connection_of,
                        keys_order>>
    /\ last_call' = NoCall
    /\ refreshed' = FALSE
    /\ refresh_ret' = NoReturn
    /\ before_refresh' = <<>>
    /\ UNCHANGED <<reg_local_tools, reg_local_handlers, reg_mcp_tool_map, available_tools>>
    /\ UNCHANGED <<actorVars, poolVars, agentVars, genericVars>>

StartServer(server_name, outcome, tools, fails) ==
    StartServerWithin(server_name, outcome, tools, fails, MaxRegistryOps)

\* what stop_server returns: the error of a failed cancel() of the removed connection,
\* Ok(()) otherwise, also when there was no connection under the name
StopResultStrict(present, cancel_ok) ==
    IF ~present THEN ServerNotFound
    ELSE IF cancel_ok THEN Ok(<<>>) ELSE ToolError("Failed to stop server")
StopResult(present, cancel_ok) ==
    IF present /\ ~cancel_ok THEN ToolError("Failed to stop server") ELSE Ok(<<>>)

\* stop_server(server_name): the connection under the name, if any, is removed from
\* active_servers and then cancelled; cancel_ok is whether cancel() succeeds
StopServerWithin(server_name, cancel_ok, budget) ==
    /\ nRegOps < budget
    /\ nRegOps' = nRegOps + 1
    /\ server_name \notin active_servers => cancel_ok
    /\ last_mgr' = [op |-> "stop_server", name |-> server_name,
                    result |-> StopResult(server_name \in active_servers, cancel_ok),
                    was_active |-> server_name \in active_servers,
                    again |-> last_mgr.op = "stop_server" /\ last_mgr.name = server_name]
    /\ IF server_name \in active_servers
       THEN /\ active_servers' = active_servers \ {server_name}
            /\ server_tools' = [server_tools EXCEPT ![server_name] = <<>>]
            /\ list_fails' = list_fails \ {server_name}
            /\ conn_state' = [conn_state EXCEPT ![connection_of[server_name]] =
                                 IF cancel_ok THEN "cancelled" ELSE "cancel_failed"]
            /\ connection_of' = [connection_of EXCEPT ![server_name] = 0]
            /\ keys_order' \in KeyOrders(active_servers')
       ELSE UNCHANGED <<active_servers, server_tools, list_fails, conn_state, connection_of,
                        keys_order>>
    /\ last_call' = NoCall
    /\ refreshed' = FALSE
    /\ refresh_ret' = NoReturn
    /\ before_refresh' = <<>>
    /\ UNCHANGED <<reg_local_tools, reg_local_handlers, reg_mcp_tool_map, available_tools>>
    /\ UNCHANGED <<actorVars, poolVars, agentVars, genericVars>>

StopServer(server_name, cancel_ok) == StopServerWithin(server_name, cancel_ok, MaxRegistryOps)

\* connection.service.list_tools(..): the Result of the request
ListTools(server_name) ==
    IF server_name \in list_fails THEN [ok |-> FALSE, err |-> [type |-> "ServiceError", msg |-> ""]]
    ELSE Ok(server_tools[server_name])

\* Result::iter(): the Ok value once, nothing for an Err
ResultIter(result) == IF result.ok THEN <<result.val>> ELSE <<>>

\* get_server_tools(server_name): ServerNotFound without a connection; else the tools of
\* tools.iter().flat_map(|t| t.tools ..).collect(), wrapped in Ok
get_server_tools(server_name) ==
    IF server_name \notin active_servers THEN ServerNotFound
    ELSE LET tools == ResultIter(ListTools(server_name))
         IN  Ok(IF tools = <<>> THEN <<>> ELSE tools[1])

\* whether a remote tool named tool_name collides with an entry of the registry `st`
CollidesWithAnyName(st, tool_name) ==
    tool_name \in DOMAIN st.map \/ tool_name \in reg_local_tools
ContainsKey(st, tool_name) == tool_name \in DOMAIN st.map

\* the body of `for tool in tools`: the descriptor is keyed by the tool's name, or by
\* "server::tool" when mcp_tool_map already has the name, and pushed to the catalog
InsertTool(st, server_name, tool_name) ==
    LET final_tool_name == IF ContainsKey(st, tool_name)
                           THEN Namespaced(server_name, tool_name)
                           ELSE tool_name
    IN  [st EXCEPT
            !.map = MapInsert(st.map, final_tool_name, MCPToolDescriptor(server_name, tool_name)),
            !.avail = Append(st.avail, McpDescriptor(final_tool_name, server_name))]

RECURSIVE InsertTools(_, _, _)
InsertTools(st, server_name, tools) ==
    IF tools = <<>> THEN st
    ELSE InsertTools(InsertTool(st, server_name, Head(tools)), server_name, Tail(tools))

\* `for server_name in manager.get_active_server_names()`: the `?` on get_server_tools
\* returns its error at once, what was inserted so far stays
RECURSIVE DiscoverServers(_, _)
DiscoverServers(st, names) ==
    IF names = <<>> THEN st
    ELSE LET tools == get_server_tools(Head(names))
         IN  IF ~tools.ok THEN [st EXCEPT !.ret = tools]
             ELSE DiscoverServers(InsertTools(st, Head(names), tools.val), Tail(names))

\* available_tools.retain(|t| matches!(t, ToolDescriptor::Local { .. }))
RetainAll(avail) == avail
RECURSIVE RetainLocal(_)
RetainLocal(avail) ==
    IF avail = <<>> THEN <<>>
    ELSE IF Head(avail).kind = "Local"
         THEN <<Head(avail)>> \o RetainLocal(Tail(avail))
         ELSE RetainLocal(Tail(avail))

\* the registry after the discovery loop enumerated the active servers in order `names`
Discovered(names) ==
    DiscoverServers([map |-> <<>>, avail |-> RetainLocal(available_tools), ret |-> Ok(<<>>)],
                    names)

\* refresh_mcp_tools(manager): the remote entries are cleared and discovered again
RefreshMcpToolsWithin(budget) ==
    /\ nRegOps < budget
    /\ nRegOps' = nRegOps + 1
    /\ before_refresh' = reg_mcp_tool_map
    /\ reg_mcp_tool_map' = Discovered(keys_order).map
    /\ available_tools' = Discovered(keys_order).avail
    /\ refresh_ret' = Discovered(keys_order).ret
    /\ last_call' = NoCall
    /\ refreshed' = TRUE
    /\ last_mgr' = NoMgrCall
    /\ UNCHANGED <<reg_local_tools, reg_local_handlers, active_servers, server_tools,
                   keys_order, list_fails, connection_of, conn_state>>
    /\ UNCHANGED <<actorVars, poolVars, agentVars, genericVars>>

RefreshMcpTools == RefreshMcpToolsWithin(MaxRegistryOps)

\* get_tools_names()
get_tools_names == [i \in 1..Len(available_tools) |-> available_tools[i].name]

\* the tool execute_mcp_tool asks the server for: descriptor.tool_name
CalledKey(key, descriptor) == key
CalledTool(key, descriptor) == descriptor.tool_name

\* execute_mcp_tool(descriptor, ..): the connection of descriptor.server_name, or
\* ServerNotFound; then call_tool on it
ExecuteMcpToolUnchecked(key, descriptor) ==
    [kind |-> "remote", server_name |-> descriptor.server_name,
     tool_name |-> CalledTool(key, descriptor)]
ExecuteMcpTool(key, descriptor) ==
    IF descriptor.server_name \in active_servers
    THEN [kind |-> "remote", server_name |-> descriptor.server_name,
          tool_name |-> CalledTool(key, descriptor)]
    ELSE [kind |-> "ServerNotFound"]

\* what execute_tool(tool_name, ..) reaches: the local handler, else the remote tool, else
\* "Tool '..' not found"
ResolveRemoteFirst(tool_name) ==
    IF tool_name \in DOMAIN reg_mcp_tool_map
    THEN ExecuteMcpTool(tool_name, reg_mcp_tool_map[tool_name])
    ELSE IF tool_name \in reg_local_tools
         THEN [kind |-> "local", name |-> tool_name]
         ELSE [kind |-> "not_found"]
Resolve(tool_name) ==
    IF tool_name \in reg_local_tools
    THEN [kind |-> "local", name |-> tool_name]
    ELSE IF tool_name \in DOMAIN reg_mcp_tool_map
         THEN ExecuteMcpTool(tool_name, reg_mcp_tool_map[tool_name])
         ELSE [kind |-> "not_found"]

\* the names execute_tool is called with
CallNames == ToolNames \cup {Namespaced(s, t) : s \in ServerNames, t \in ToolNames}

\* Err(ToolError(format!("Tool '{}' not found", tool_name)))
NotFoundUnnamed(tool_name) == ToolError("Tool not found")
NotFound(tool_name) == ToolError("Tool '" \o tool_name \o "' not found")

\* the handler local_tool.execute runs on, 0 when the call reaches no local handler
HandlerRun(tool_name) ==
    IF Resolve(tool_name).kind = "local" THEN reg_local_handlers[tool_name] ELSE 0

\* the keys the call sets in the ExecutionContext: the context is handed to the local
\* handler only (the handlers of the tests set a key), not to execute_mcp_tool
ContextWrites(tool_name) ==
    IF Resolve(tool_name).kind = "local" THEN {"step_1"} ELSE {}

\* the error execute_tool returns without reaching a handler or a server
ErrorOf(tool_name) ==
    CASE Resolve(tool_name).kind = "not_found" -> NotFound(tool_name)
      [] Resolve(tool_name).kind = "ServerNotFound" -> ServerNotFound
      [] OTHER -> [kind |-> "none"]

\* execute_tool(tool_name, params, manager, context)
ExecuteTool(tool_name) ==
    /\ last_call' = [name |-> tool_name, outcome |-> Resolve(tool_name),
                     handler |-> HandlerRun(tool_name), writes |-> ContextWrites(tool_name),
                     error |-> ErrorOf(tool_name)]
    /\ UNCHANGED <<reg_local_tools, reg_mcp_tool_map, available_tools, active_servers,
                   server_tools, keys_order, refreshed, nRegOps, list_fails, connection_of,
                   conn_state, last_mgr, refresh_ret, reg_local_handlers, before_refresh>>
    /\ UNCHANGED <<actorVars, poolVars, agentVars, genericVars>>

RegistryNext ==
    \/ \E name \in ToolNames : RegisterLocalTool(name)
    \/ \E server_name \in ServerNames : \E outcome \in StartOutcomes :
          \E tools \in ToolLists : \E fails \in BOOLEAN :
             StartServer(server_name, outcome, tools, fails)
    \/ \E server_name \in ServerNames : \E cancel_ok \in BOOLEAN :
          StopServer(server_name, cancel_ok)
    \/ RefreshMcpTools
    \/ \E tool_name \in CallNames : ExecuteTool(tool_name)

\* the registry over a longer life of servers that start and stop cleanly and answer
\* every listing: tools are registered, servers started, refreshed, stopped, refreshed again
RegistryCycleNext ==
    \/ \E name \in ToolNames : RegisterLocalToolWithin(name, MaxCycleOps)
    \/ \E server_name \in ServerNames : \E tools \in ShortToolLists :
          StartServerWithin(server_name, "started", tools, FALSE, MaxCycleOps)
    \/ \E server_name \in ServerNames : StopServerWithin(server_name, TRUE, MaxCycleOps)
    \/ RefreshMcpToolsWithin(MaxCycleOps)
    \/ \E tool_name \in CallNames : ExecuteTool(tool_name)

(***************************************************************************)
(* Tasks that share one manager and one registry through TodoAgent.        *)
(***************************************************************************)
AgentInit ==
    /\ epc = [e \in Executors |-> "idle"]
    /\ etool = [e \in Executors |-> ""]
    /\ eseen = [e \in Executors |-> [kind |-> "none"]]
    /\ rpc = "idle"
    /\ rnames = <<>>
    /\ nCalls = 0
    /\ nRefreshes = 0
    /\ qpc = "idle"

\* AgenticSystem::new, the start of the enabled servers: each is started once, before
\* the manager is shared with any agent
SystemStartServer(server_name, tools) ==
    /\ nCalls = 0 /\ nRefreshes = 0
    /\ server_name \notin active_servers
    /\ StartServer(server_name, "started", tools, FALSE)

\* Mutex::lock().await completes when nobody holds the mutex
TakenAnyway(holder) == TRUE
LockFree(holder) == holder = 0

\* a task calls agent.execute_tool(tool_name, ..)
ExecToolBegin(e, tool_name) ==
    /\ epc[e] = "idle"
    /\ nCalls < MaxCalls
    /\ nCalls' = nCalls + 1
    /\ epc' = [epc EXCEPT ![e] = "lock_manager"]
    /\ etool' = [etool EXCEPT ![e] = tool_name]
    /\ eseen' = [eseen EXCEPT ![e] = [kind |-> "none"]]
    /\ UNCHANGED <<rpc, rnames, nRefreshes, mgrLock, regLock>>
    /\ UNCHANGED <<actorVars, poolRest, registryVars, qpc, genericVars>>

\* let manager = self.manager.lock().await
ExecLockManager(e) ==
    /\ epc[e] = "lock_manager"
    /\ LockFree(mgrLock)
    /\ mgrLock' = e
    /\ epc' = [epc EXCEPT ![e] = "lock_registry"]
    /\ UNCHANGED <<etool, eseen, rpc, rnames, nCalls, nRefreshes, regLock>>
    /\ UNCHANGED <<actorVars, poolRest, registryVars, qpc, genericVars>>

\* let tool_registry = self.tool_registry.lock().await; tool_registry.execute_tool(..)
\* looks the name up and starts the handler or the call to the server
ExecLockRegistry(e) ==
    /\ epc[e] = "lock_registry"
    /\ LockFree(regLock)
    /\ regLock' = e
    /\ epc' = [epc EXCEPT ![e] = "calling"]
    /\ eseen' = [eseen EXCEPT ![e] = Resolve(etool[e])]
    /\ UNCHANGED <<etool, rpc, rnames, nCalls, nRefreshes, mgrLock>>
    /\ UNCHANGED <<actorVars, poolRest, registryVars, qpc, genericVars>>

\* the call returns: both guards are dropped at the end of execute_tool
ExecReturn(e) ==
    /\ epc[e] = "calling"
    /\ epc' = [epc EXCEPT ![e] = "idle"]
    /\ mgrLock' = 0
    /\ regLock' = 0
    /\ UNCHANGED <<etool, eseen, rpc, rnames, nCalls, nRefreshes>>
    /\ UNCHANGED <<actorVars, poolRest, registryVars, qpc, genericVars>>

\* a task evaluates tool_registry.lock().await.refresh_mcp_tools(&*manager.lock().await)
RefreshBegin ==
    /\ rpc = "idle"
    /\ nRefreshes < MaxRefreshes
    /\ nRefreshes' = nRefreshes + 1
    /\ rpc' = "lock_registry"
    /\ UNCHANGED <<epc, etool, eseen, rnames, nCalls, mgrLock, regLock>>
    /\ UNCHANGED <<actorVars, poolRest, registryVars, qpc, genericVars>>

\* the receiver of the call: tool_registry.lock().await
RefreshLockRegistry ==
    /\ rpc = "lock_registry"
    /\ LockFree(regLock)
    /\ regLock' = Refresher
    /\ rpc' = "lock_manager"
    /\ UNCHANGED <<epc, etool, eseen, rnames, nCalls, nRefreshes, mgrLock>>
    /\ UNCHANGED <<actorVars, poolRest, registryVars, qpc, genericVars>>

\* the argument of the call: manager.lock().await
RefreshLockManager ==
    /\ rpc = "lock_manager"
    /\ LockFree(mgrLock)
    /\ mgrLock' = Refresher
    /\ rpc' = "clear"
    /\ UNCHANGED <<epc, etool, eseen, rnames, nCalls, nRefreshes, regLock>>
    /\ UNCHANGED <<actorVars, poolRest, registryVars, qpc, genericVars>>

\* refresh_mcp_tools up to the first await: the remote entries are cleared and the
\* active server names collected
RefreshClear ==
    /\ rpc = "clear"
    /\ rpc' = "discover"
    /\ reg_mcp_tool_map' = <<>>
    /\ available_tools' = RetainLocal(available_tools)
    /\ rnames' = keys_order
    /\ refreshed' = FALSE
    /\ refresh_ret' = NoReturn
    /\ last_call' = NoCall
    /\ last_mgr' = NoMgrCall
    /\ before_refresh' = reg_mcp_tool_map
    /\ UNCHANGED <<reg_local_tools, reg_local_handlers, active_servers, server_tools,
                   keys_order, nRegOps, list_fails, connection_of, conn_state>>
    /\ UNCHANGED <<epc, etool, eseen, nCalls, nRefreshes, mgrLock, regLock>>
    /\ UNCHANGED <<actorVars, poolRest, qpc, genericVars>>

\* one round of the discovery loop: get_server_tools(..).await? and the insertion of
\* the tools; the error of get_server_tools ends the refresh and drops the guards
RefreshDiscover ==
    /\ rpc = "discover"
    /\ rnames # <<>>
    /\ LET tools == get_server_tools(Head(rnames))
           st == InsertTools([map |-> reg_mcp_tool_map, avail |-> available_tools,
                              ret |-> Ok(<<>>)],
                             Head(rnames), IF tools.ok THEN tools.val ELSE <<>>)
       IN  /\ reg_mcp_tool_map' = st.map
           /\ available_tools' = st.avail
           /\ IF tools.ok
              THEN /\ rnames' = Tail(rnames)
                   /\ UNCHANGED <<rpc, refresh_ret, mgrLock, regLock>>
              ELSE /\ rnames' = <<>>
                   /\ rpc' = "idle"
                   /\ refresh_ret' = tools
                   /\ mgrLock' = 0
                   /\ regLock' = 0
    /\ UNCHANGED <<reg_local_tools, active_servers, server_tools, keys_order, last_call,
                   refreshed, nRegOps, list_fails, connection_of, conn_state, last_mgr,
                   reg_local_handlers, before_refresh>>
    /\ UNCHANGED <<epc, etool, eseen, nCalls, nRefreshes>>
    /\ UNCHANGED <<actorVars, poolRest, qpc, genericVars>>

\* the loop is over: Ok(()), and the two guards are dropped at the end of the statement
RefreshEnd ==
    /\ rpc = "discover"
    /\ rnames = <<>>
    /\ rpc' = "idle"
    /\ refresh_ret' = Ok(<<>>)
    /\ refreshed' = TRUE
    /\ mgrLock' = 0
    /\ regLock' = 0
    /\ UNCHANGED <<reg_local_tools, reg_mcp_tool_map, available_tools, active_servers,
                   server_tools, keys_order, last_call, nRegOps, list_fails, connection_of,
                   conn_state, last_mgr, reg_local_handlers, before_refresh>>
    /\ UNCHANGED <<epc, etool, eseen, rnames, nCalls, nRefreshes>>
    /\ UNCHANGED <<actorVars, poolRest, qpc, genericVars>>

\* AgenticSystem::new creates the TodoAgent, the only way to execute_tool and to
\* process_request, after its refresh_mcp_tools has returned
AlwaysConstructed == TRUE
Constructed == nRefreshes >= 1 /\ rpc = "idle"

\* TodoAgent::process_request: `let tool_registry = self.tool_registry.lock().await`
RequestBegin ==
    /\ qpc = "idle"
    /\ Constructed
    /\ qpc' = "lock_registry"
    /\ UNCHANGED <<epc, etool, eseen, rpc, rnames, nCalls, nRefreshes, mgrLock, regLock>>
    /\ UNCHANGED <<actorVars, poolRest, registryVars, genericVars>>

\* the registry guard is taken and held over the request to the LLM; the manager is
\* not locked
RequestLockRegistry ==
    /\ qpc = "lock_registry"
    /\ LockFree(regLock)
    /\ regLock' = Requester
    /\ qpc' = "holding"
    /\ UNCHANGED <<epc, etool, eseen, rpc, rnames, nCalls, nRefreshes, mgrLock>>
    /\ UNCHANGED <<actorVars, poolRest, registryVars, genericVars>>

\* process_request returns and drops the guard
RequestEnd ==
    /\ qpc = "holding"
    /\ qpc' = "idle"
    /\ regLock' = 0
    /\ UNCHANGED <<epc, etool, eseen, rpc, rnames, nCalls, nRefreshes, mgrLock>>
    /\ UNCHANGED <<actorVars, poolRest, registryVars, genericVars>>

\* AgenticSystem::new: the one refresh of the system, after the servers are started
SystemRefreshBegin ==
    /\ nRefreshes = 0
    /\ RefreshBegin

\* a task of the constructed system calls agent.execute_tool
SystemExecToolBegin(e, tool_name) ==
    /\ Constructed
    /\ ExecToolBegin(e, tool_name)

AgentNext ==
    \/ \E server_name \in ServerNames : \E tools \in ShortToolLists :
          SystemStartServer(server_name, tools)
    \/ \E e \in Executors : \E tool_name \in CallNames : ExecToolBegin(e, tool_name)
    \/ \E e \in Executors : ExecLockManager(e)
    \/ \E e \in Executors : ExecLockRegistry(e)
    \/ \E e \in Executors : ExecReturn(e)
    \/ RefreshBegin
    \/ RefreshLockRegistry
    \/ RefreshLockManager
    \/ RefreshClear
    \/ RefreshDiscover
    \/ RefreshEnd

\* the system as AgenticSystem builds it: the servers are started and the registry is
\* refreshed in `new`; then tasks call execute_tool and process_request on the agent
SystemNext ==
    \/ \E server_name \in ServerNames : \E tools \in ShortToolLists :
          SystemStartServer(server_name, tools)
    \/ SystemRefreshBegin
    \/ RefreshLockRegistry
    \/ RefreshLockManager
    \/ RefreshClear
    \/ RefreshDiscover
    \/ RefreshEnd
    \/ \E e \in Executors : \E tool_name \in CallNames : SystemExecToolBegin(e, tool_name)
    \/ \E e \in Executors : ExecLockManager(e)
    \/ \E e \in Executors : ExecLockRegistry(e)
    \/ \E e \in Executors : ExecReturn(e)
    \/ RequestBegin
    \/ RequestLockRegistry
    \/ RequestEnd

(***************************************************************************)
(* The generic TaskPool<T> and its processor.                              *)
(***************************************************************************)
\* the tasks given to execute: 5 and 3 are those of the tests
GenericTasks == {5, 3, 7}

\* the processor, a dyn Fn(T): the one of the tests adds the task to a counter; a
\* processor may also panic, here on the task 7
ProcessorPanics(task) == task = 7
ProcessorAdds(task) == task

\* TaskPool::new(worker_count, processor): the channel of capacity 100 and the workers
GenericCapacity == 100
GenericInit ==
    /\ gqueue = <<>>
    /\ gtasks = <<>>
    /\ gfailed = 0
    /\ gtx = TRUE
    /\ grxOpen = TRUE
    /\ gpc = [w \in Workers |-> "idle"]
    /\ gtask = [w \in Workers |-> 0]
    /\ grxLock = 0
    /\ gcounter = 0
    /\ gprocessed = <<>>
    /\ gsd = "none"
    /\ gjoin = 0

\* pool.execute(task): sender.send(task).await completes with Ok once the channel has
\* room, and with Err("Pool shutdown") when the Receiver is gone
GenericExecute(task) ==
    /\ gsd = "none"
    /\ Len(gtasks) + gfailed < MaxGenericTasks
    /\ IF grxOpen
       THEN /\ Len(gqueue) < GenericCapacity
            /\ gtasks' = Append(gtasks, task)
            /\ gqueue' = Append(gqueue, Len(gtasks) + 1)
            /\ UNCHANGED gfailed
       ELSE /\ gfailed' = gfailed + 1
            /\ UNCHANGED <<gtasks, gqueue>>
    /\ UNCHANGED <<gtx, grxOpen, gpc, gtask, grxLock, gcounter, gprocessed, gsd, gjoin>>
    /\ UNCHANGED <<actorVars, poolVars, registryVars, agentVars>>

\* let mut rx = receiver.lock().await
GenericLockReceiver(w) ==
    /\ gpc[w] = "idle"
    /\ grxLock = 0
    /\ grxLock' = w
    /\ gpc' = [gpc EXCEPT ![w] = "recv"]
    /\ UNCHANGED <<gqueue, gtasks, gfailed, gtx, grxOpen, gtask, gcounter, gprocessed,
                   gsd, gjoin>>
    /\ UNCHANGED <<actorVars, poolVars, registryVars, agentVars>>

\* the channel once rx.recv() has returned its head
GenericKeepHead(q) == q
GenericAfterRecv(q) == Tail(q)

\* rx.recv().await returns Some(task); the guard rx lives to the end of the iteration
GenericRecv(w) ==
    /\ gpc[w] = "recv"
    /\ gqueue # <<>>
    /\ gtask' = [gtask EXCEPT ![w] = Head(gqueue)]
    /\ gqueue' = GenericAfterRecv(gqueue)
    /\ gpc' = [gpc EXCEPT ![w] = "proc"]
    /\ UNCHANGED <<gtasks, gfailed, gtx, grxOpen, grxLock, gcounter, gprocessed, gsd, gjoin>>
    /\ UNCHANGED <<actorVars, poolVars, registryVars, agentVars>>

\* the workers whose loop is still running, w apart
OtherGenericWorkers(w) == {v \in Workers \ {w} : gpc[v] \notin {"done", "panicked"}}

\* rx.recv().await returns None (channel closed and empty): break
GenericExit(w) ==
    /\ gpc[w] = "recv"
    /\ gqueue = <<>>
    /\ ~gtx
    /\ grxLock' = 0
    /\ gpc' = [gpc EXCEPT ![w] = "done"]
    /\ grxOpen' = (grxOpen /\ OtherGenericWorkers(w) # {})
    /\ UNCHANGED <<gqueue, gtasks, gfailed, gtx, gtask, gcounter, gprocessed, gsd, gjoin>>
    /\ UNCHANGED <<actorVars, poolVars, registryVars, agentVars>>

\* Some(task) => processor.lock().await(task): the processor runs on the task and
\* returns; the iteration ends and drops the guards.  Only a worker holding the receiver
\* guard locks the processor, so its guard is free when asked for
GenericProcess(w) ==
    /\ gpc[w] = "proc"
    /\ ~ProcessorPanics(gtasks[gtask[w]])
    /\ gprocessed' = Append(gprocessed, [task |-> gtask[w], worker |-> w])
    /\ gcounter' = gcounter + ProcessorAdds(gtasks[gtask[w]])
    /\ gpc' = [gpc EXCEPT ![w] = "idle"]
    /\ gtask' = [gtask EXCEPT ![w] = 0]
    /\ grxLock' = 0
    /\ UNCHANGED <<gqueue, gtasks, gfailed, gtx, grxOpen, gsd, gjoin>>
    /\ UNCHANGED <<actorVars, poolVars, registryVars, agentVars>>

\* the processor panics on the task: the worker task unwinds and drops its guards and its
\* Arc of the receiver; the last Arc drops the Receiver with the tasks still in the channel
GenericPanic(w) ==
    /\ gpc[w] = "proc"
    /\ ProcessorPanics(gtasks[gtask[w]])
    /\ gprocessed' = Append(gprocessed, [task |-> gtask[w], worker |-> w])
    /\ gpc' = [gpc EXCEPT ![w] = "panicked"]
    /\ gtask' = [gtask EXCEPT ![w] = 0]
    /\ grxLock' = 0
    /\ IF OtherGenericWorkers(w) = {}
       THEN /\ grxOpen' = FALSE
            /\ gqueue' = <<>>
       ELSE UNCHANGED <<grxOpen, gqueue>>
    /\ UNCHANGED <<gtasks, gfailed, gtx, gcounter, gsd, gjoin>>
    /\ UNCHANGED <<actorVars, poolVars, registryVars, agentVars>>

\* shutdown(mut self): self.sender.take()
GenericShutdownBegin ==
    /\ gsd = "none"
    /\ gtx' = FALSE
    /\ gsd' = "joining"
    /\ gjoin' = 1
    /\ UNCHANGED <<gqueue, gtasks, gfailed, grxOpen, gpc, gtask, grxLock, gcounter,
                   gprocessed>>
    /\ UNCHANGED <<actorVars, poolVars, registryVars, agentVars>>

\* for worker in self.workers { worker.await.map_err(..).unwrap(); }: the JoinError of a
\* worker that panicked makes shutdown panic
GenericShutdownJoin ==
    /\ gsd = "joining"
    /\ gpc[gjoin] \in {"done", "panicked"}
    /\ IF gpc[gjoin] = "panicked"
       THEN gsd' = "panicked" /\ UNCHANGED gjoin
       ELSE IF gjoin = NumWorkers
            THEN gsd' = "returned" /\ UNCHANGED gjoin
            ELSE gjoin' = gjoin + 1 /\ UNCHANGED gsd
    /\ UNCHANGED <<gqueue, gtasks, gfailed, gtx, grxOpen, gpc, gtask, grxLock, gcounter,
                   gprocessed>>
    /\ UNCHANGED <<actorVars, poolVars, registryVars, agentVars>>

GenericPoolNext ==
    \/ \E task \in GenericTasks : GenericExecute(task)
    \/ \E w \in Workers : GenericLockReceiver(w)
    \/ \E w \in Workers : GenericRecv(w)
    \/ \E w \in Workers : GenericExit(w)
    \/ \E w \in Workers : GenericProcess(w)
    \/ \E w \in Workers : GenericPanic(w)
    \/ GenericShutdownBegin
    \/ GenericShutdownJoin

(***************************************************************************)
(* ActorSystem: the registry of handles and shutdown_all.                  *)
(***************************************************************************)
\* get_actor(id): the handle registered under id, if any
get_actor(id) == IF id \in actors THEN [some |-> TRUE, id |-> id] ELSE [some |-> FALSE]

\* the task of a peer: initialize(), then the loop until it dequeues a Shutdown
PeerInitialize(a) ==
    /\ peerPc[a] = "init"
    /\ \E ok \in BOOLEAN : peerPc' = [peerPc EXCEPT ![a] = AfterInitialize(ok)]
    /\ UNCHANGED <<actors, sysPc, sysRet, peerShut, handles>>
    /\ UNCHANGED <<inbox, rxOpen, apc, cur, sent, recvLog, handledLog, initCalls,
                   shutdownCalls, spc, scall, chan, sres, safter, sdSent, nSends, initResult>>
    /\ UNCHANGED <<poolVars, registryVars, agentVars, genericVars>>

PeerShutdown(a) ==
    /\ peerPc[a] = "recv"
    /\ peerShut[a]
    /\ peerPc' = [peerPc EXCEPT ![a] = "done"]
    /\ UNCHANGED <<actors, sysPc, sysRet, peerShut, handles>>
    /\ UNCHANGED <<inbox, rxOpen, apc, cur, sent, recvLog, handledLog, initCalls,
                   shutdownCalls, spc, scall, chan, sres, safter, sdSent, nSends, initResult>>
    /\ UNCHANGED <<poolVars, registryVars, agentVars, genericVars>>

\* the handles `for handle in self.actors.values()` visits
FirstHandleOnly(registered) ==
    IF registered = {} THEN {} ELSE {CHOOSE a \in registered : \A b \in registered : a <= b}
ShutdownTargets(registered) == registered

\* shutdown_all up to the sleep: Message::Shutdown is sent through every registered
\* handle, and the result of each send is discarded (`let _ =`)
ShutdownAllSend ==
    /\ sysPc = "idle"
    /\ sysPc' = "sleeping"
    /\ LET targets == ShutdownTargets(actors) IN
         /\ IF 1 \in targets /\ SendAccepted(rxOpen)
            THEN /\ inbox' = Append(inbox, [ShutdownMsg EXCEPT !.id = Len(sent) + 1])
                 /\ sent' = Append(sent, [ShutdownMsg EXCEPT !.id = Len(sent) + 1])
            ELSE UNCHANGED <<inbox, sent>>
         /\ sdSent' = (sdSent \/ 1 \in targets)
         /\ peerShut' = [a \in Peers |->
                            peerShut[a] \/ (a \in targets /\ SendAccepted(peerPc[a] # "done"))]
    /\ UNCHANGED <<actors, sysRet, peerPc, handles>>
    /\ UNCHANGED <<rxOpen, apc, cur, recvLog, handledLog, initCalls, shutdownCalls,
                   spc, scall, chan, sres, safter, nSends, initResult>>
    /\ UNCHANGED <<poolVars, registryVars, agentVars, genericVars>>

\* shutdown_all after the sleep of 100 ms: self.actors.clear(); Ok(())
ShutdownAllReturn ==
    /\ sysPc = "sleeping"
    /\ sysPc' = "done"
    /\ actors' = {}
    /\ sysRet' = Ok(<<>>)
    /\ UNCHANGED <<peerShut, peerPc, handles>>
    /\ UNCHANGED <<inbox, rxOpen, apc, cur, sent, recvLog, handledLog, initCalls,
                   shutdownCalls, spc, scall, chan, sres, safter, sdSent, nSends, initResult>>
    /\ UNCHANGED <<poolVars, registryVars, agentVars, genericVars>>

\* a sender task drops its clone of the ActorHandle (not while its call borrows it)
DropHandle(s) ==
    /\ s \in handles
    /\ spc[s] = "idle"
    /\ handles' = handles \ {s}
    /\ UNCHANGED <<actors, sysPc, sysRet, peerShut, peerPc>>
    /\ UNCHANGED <<inbox, rxOpen, apc, cur, sent, recvLog, handledLog, initCalls,
                   shutdownCalls, spc, scall, chan, sres, safter, sdSent, nSends, initResult>>
    /\ UNCHANGED <<poolVars, registryVars, agentVars, genericVars>>

\* the ActorSystem is dropped without shutdown_all: its map goes with the handles in it
DropSystem ==
    /\ sysPc = "idle"
    /\ sysPc' = "dropped"
    /\ actors' = {}
    /\ UNCHANGED <<sysRet, peerShut, peerPc, handles>>
    /\ UNCHANGED <<inbox, rxOpen, apc, cur, sent, recvLog, handledLog, initCalls,
                   shutdownCalls, spc, scall, chan, sres, safter, sdSent, nSends, initResult>>
    /\ UNCHANGED <<poolVars, registryVars, agentVars, genericVars>>

\* where the task goes when rx.recv() returns None: out of the `while let`, to its end
ShutdownOnClose == "shutdown"
AfterClosed == "done"

\* rx.recv() returns None: the inbox is empty and every Sender, the clones of the sender
\* tasks and the one in the map of the system, is dropped
ActorInboxClosed ==
    /\ apc = "recv"
    /\ inbox = <<>>
    /\ handles = {}
    /\ 1 \notin actors
    /\ apc' = AfterClosed
    /\ IF apc' = "done"
       THEN DropReceiver
       ELSE UNCHANGED <<rxOpen, inbox, chan>>
    /\ UNCHANGED <<cur, sent, recvLog, handledLog, initCalls, shutdownCalls, spc, scall,
                   sres, safter, sdSent, nSends>>
    /\ UNCHANGED <<initResult, systemVars, poolVars, registryVars, agentVars, genericVars>>

(***************************************************************************)
(* The specifications.                                                     *)
(***************************************************************************)
Init == ActorInit /\ PoolInit /\ RegistryInit /\ AgentInit /\ GenericInit

ActorStep == ActorInitialize \/ ActorRecv \/ ActorHandleDone \/ ActorShutdown

ActorNext ==
    \/ \E s \in Senders : SendExecuteTool(s)
    \/ \E s \in Senders : HealthCheck(s)
    \/ \E s \in Senders : SendShutdown(s)
    \/ \E s \in Senders : AwaitReply(s)
    \/ ActorInitialize
    \/ ActorRecv
    \/ ActorHandleDone
    \/ ActorShutdown

ActorSpec == Init /\ [][ActorNext]_vars

\* the runtime schedules every runnable task: the actor task and every waiting caller
ActorFairSpec ==
    /\ ActorSpec
    /\ WF_vars(ActorStep)
    /\ \A s \in Senders : WF_vars(AwaitReply(s))

\* the actor and its senders inside an ActorSystem that is shut down
ActorSystemNext ==
    \/ \E s \in Senders : SendExecuteTool(s)
    \/ \E s \in Senders : HealthCheck(s)
    \/ \E s \in Senders : SendShutdown(s)
    \/ \E s \in Senders : AwaitReply(s)
    \/ ActorInitialize
    \/ ActorRecv
    \/ ActorHandleDone
    \/ ActorShutdown
    \/ \E a \in Peers : PeerInitialize(a)
    \/ \E a \in Peers : PeerShutdown(a)
    \/ ShutdownAllSend
    \/ ShutdownAllReturn

ActorSystemSpec == Init /\ [][ActorSystemNext]_vars

\* the whole life of the actor: its handles are used and dropped, the system is shut
\* down or dropped
ActorLifeNext ==
    \/ \E s \in Senders : SendExecuteTool(s)
    \/ \E s \in Senders : HealthCheck(s)
    \/ \E s \in Senders : SendShutdown(s)
    \/ \E s \in Senders : AwaitReply(s)
    \/ \E s \in Senders : DropHandle(s)
    \/ ActorInitialize
    \/ ActorRecv
    \/ ActorHandleDone
    \/ ActorShutdown
    \/ ActorInboxClosed
    \/ ShutdownAllSend
    \/ ShutdownAllReturn
    \/ DropSystem

ActorLifeSpec == Init /\ [][ActorLifeNext]_vars

PoolSpec == Init /\ [][PoolNext]_vars

\* a pool constructed with worker_count = 0, its callers, and its shutdown
EmptyPoolInit == ActorInit /\ PoolInitWith(0) /\ RegistryInit /\ AgentInit /\ GenericInit

EmptyPoolNext ==
    \/ \E c \in Callers : ExecuteStep(c)
    \/ \E c \in Callers : ExecuteParallel(c)
    \/ ShutdownBegin

EmptyPoolSpec == EmptyPoolInit /\ [][EmptyPoolNext]_vars

GenericPoolSpec == Init /\ [][GenericPoolNext]_vars

RegistrySpec == Init /\ [][RegistryNext]_vars

RegistryCycleSpec == Init /\ [][RegistryCycleNext]_vars

AgentSpec == Init /\ [][AgentNext]_vars

SystemSpec == Init /\ [][SystemNext]_vars

\* the pool used through execute_step only, every call awaited to its end
PoolStepNext ==
    \/ \E c \in Callers : ExecuteStepAwaited(c)
    \/ \E c \in Callers : StepResume(c)
    \/ \E c \in Callers : StepAwait(c)
    \/ \E w \in Workers : WorkerLockReceiver(w)
    \/ \E w \in Workers : WorkerRecv(w)
    \/ \E w \in Workers : WorkerExit(w)
    \/ \E w \in Workers : WorkerBeginTool(w)
    \/ \E w \in Workers : WorkerFinish(w)
    \/ \E w \in Workers : WorkerPanic(w)
    \/ ShutdownBegin
    \/ ShutdownJoin

PoolStepSpec == Init /\ [][PoolStepNext]_vars

\* a step of the worker task w, of the future of caller c
WorkerStep(w) ==
    \/ WorkerLockReceiver(w) \/ WorkerRecv(w) \/ WorkerExit(w)
    \/ WorkerBeginTool(w) \/ WorkerFinish(w) \/ WorkerPanic(w)
CallerStep(c) == StepResume(c) \/ StepAwait(c)

\* the runtime schedules every runnable task: the worker tasks spawned by the pool and
\* the awaited futures of the callers
PoolStepFairSpec ==
    /\ PoolStepSpec
    /\ \A w \in Workers : WF_vars(WorkerStep(w))
    /\ \A c \in Callers : WF_vars(CallerStep(c))

(***************************************************************************)
(* Actor runtime: the claims.                                              *)
(***************************************************************************)
\* the senders whose messages are in `ids`
SendersOf(ids) == {sent[i].respond_to : i \in ids}

\* C1: for one actor, handle_message is invoked on messages in exactly the order in which
\* they were enqueued: the ids of the handled messages (ids number the messages in enqueue
\* order) are strictly increasing, and every handled message is an enqueued one, whatever
\* the interleaving of the sender tasks.
C1_HandledInEnqueueOrder ==
    /\ \A i \in 1..Len(handledLog) : handledLog[i] \in 1..Len(sent)
    /\ \A i, j \in 1..Len(handledLog) : i < j => handledLog[i] < handledLog[j]

\* C1 witness: three messages were handled, coming from two different sender tasks
C1_Witness ==
    /\ Len(handledLog) >= 3
    /\ Cardinality(SendersOf(Range(handledLog))) >= 2

\* C2: once the loop dequeues a Shutdown it calls shutdown() and exits permanently: nothing
\* is received after it, the task is in (or past) the shutdown hook, which ran exactly once
\* when the task is done; every message enqueued before that Shutdown was passed to
\* handle_message and no message enqueued after it ever is.
C2_ShutdownTerminatesLoop ==
    \A k \in 1..Len(recvLog) :
        sent[recvLog[k]].kind = "Shutdown" =>
            /\ k = Len(recvLog)
            /\ apc \in {"shutdown", "done"}
            /\ (apc = "done" => shutdownCalls = 1 /\ ~rxOpen /\ inbox = <<>>)
            /\ \A i \in 1..(recvLog[k] - 1) : i \in Range(handledLog)
            /\ \A i \in Range(handledLog) : i < recvLog[k]

\* C2 witness: the task ended on a Shutdown that had a message enqueued before it and
\* another one enqueued after it
C2_Witness ==
    /\ apc = "done"
    /\ shutdownCalls = 1
    /\ \E k \in 1..Len(recvLog) :
         /\ sent[recvLog[k]].kind = "Shutdown"
         /\ recvLog[k] > 1
         /\ recvLog[k] < Len(sent)

\* C3: a call issued after Shutdown was sent never returns a value, and (the handlers of
\* the messages ahead of the Shutdown terminating, the tasks being scheduled) it does not
\* block forever: it ends, with the send error or with the dropped-reply error.
C3_CallAfterShutdownFails ==
    /\ [](\A s \in Senders : safter[s] => sres[s].kind # "value")
    /\ \A s \in Senders : (safter[s] /\ spc[s] = "waiting") ~> (spc[s] = "idle")

\* C3 witness: a call issued after the Shutdown was accepted by the inbox behind it and
\* ended with the error of a dropped reply channel
C3_Witness ==
    \E s \in Senders :
        /\ safter[s]
        /\ spc[s] = "idle"
        /\ sres[s] = ErrResult("Failed to receive response")
        /\ apc = "done" /\ shutdownCalls = 1

\* C4: concurrent ExecuteTool senders: every value that arrives on a sender's reply channel
\* is the reply computed from that sender's own message, a channel receives at most one
\* value, and what the sender's call returns is that value.
C4_OwnReplyOnly ==
    \A s \in Senders :
        /\ Len(chan[s].vals) <= 1
        /\ \A i \in 1..Len(chan[s].vals) : chan[s].vals[i] = EchoReply(scall[s])
        /\ sres[s].kind = "value" => sres[s].val = EchoReply(scall[s])

\* C4 witness: two senders with different ExecuteTool messages in flight at the same time,
\* one already answered on its channel and the other received its own reply after it
C4_Witness ==
    \E s1, s2 \in Senders :
        /\ s1 # s2
        /\ scall[s1].kind = "ExecuteTool" /\ scall[s2].kind = "ExecuteTool"
        /\ scall[s1].tool_name # scall[s2].tool_name
        /\ scall[s1].params # scall[s2].params
        /\ spc[s1] = "waiting" /\ chan[s1].vals # <<>>
        /\ sres[s2].kind = "value"
        /\ \E i, j \in 1..Len(sent) :
             /\ i < j
             /\ sent[i].respond_to = s1 /\ sent[j].respond_to = s2
             /\ handledLog = <<j, i>> \/ handledLog = <<i, j>>

(***************************************************************************)
(* Worker pool: the claims.                                                *)
(***************************************************************************)
\* C5: execute_parallel on n steps whose executions all succeed returns exactly n results,
\* the result at position i being a result of the step at input position i.
C5_ParallelResultsInInputOrder ==
    \A c \in Callers :
        (cpc[c] = "done" /\ cop[c] = "parallel" /\ cret[c].ok) =>
            /\ Len(cret[c].val) = Len(csteps[c])
            /\ \A i \in 1..Len(csteps[c]) : Ok(cret[c].val[i]) \in ToolResults(csteps[c][i])

\* C5 witness: an execute_parallel of two steps returned two different results
C5_Witness ==
    \E c \in Callers :
        /\ cpc[c] = "done" /\ cop[c] = "parallel" /\ cret[c].ok
        /\ Len(cret[c].val) = 2
        /\ cret[c].val[1] # cret[c].val[2]

\* C6 (the claim as stated): execute_parallel hands all its steps to the queue without
\* waiting for the result of an earlier step: whenever the call waits for the result of a
\* step, every step of the call has been sent (cidx is the position of the last step whose
\* execute_step future was polled, i.e. the number of steps sent so far).
C6_StepsSubmittedConcurrently ==
    \A c \in Callers :
        (cop[c] = "parallel" /\ cpc[c] = "waiting") => cidx[c] = Len(csteps[c])

\* C7 (the claim as stated): when execute_parallel returns the tool failure of one step,
\* every other step of the call, those after the failing one included, was submitted to
\* the pool and taken to execution by a worker.
C7_FailureDoesNotAbortSiblings ==
    \A c \in Callers :
        (cop[c] = "parallel" /\ cpc[c] = "done" /\ ~cret[c].ok
            /\ cret[c].err.type = "ToolError") =>
            \A i \in 1..Len(csteps[c]) :
                i # cidx[c] =>
                    \E k \in 1..Len(execLog) :
                        /\ tasks[execLog[k]].caller = c
                        /\ tasks[execLog[k]].idx = i

\* C8 (the claim as stated): with two workers, tool invocations run concurrently: while
\* one worker executes a tool invocation and another task is in the queue, an idle worker
\* is free to take that task (the guard of the receiver is not held), so that the two
\* invocations can be in progress at the same time.
C8_WorkersExecuteConcurrently ==
    \A w1, w2 \in Workers :
        (w1 # w2 /\ wpc[w1] = "exec" /\ wpc[w2] = "idle" /\ queue # <<>>) => rxLock = 0

\* C8: what the code guarantees instead: at most one worker is past recv() at any time
PoolOneTaskAtATime ==
    \A w1, w2 \in Workers :
        (wpc[w1] \in {"task", "exec"} /\ wpc[w2] \in {"task", "exec"}) => w1 = w2

\* C9: backpressure.  The queue never holds more than Capacity tasks; a send that finds
\* it full is suspended; a suspended send is completed only when the queue has room, and
\* then the caller's own task is appended; a send is rejected ("Task pool is shut down")
\* only when the queue is closed, never because it is full; and room appears only because
\* a worker dequeued the head (or the receiver was dropped, which closes the queue).
C9_Backpressure ==
    /\ [](Len(queue) <= Capacity)
    /\ [][\A c \in Callers :
            /\ (cpc'[c] = "suspended" /\ cpc[c] # "suspended") =>
                    (Len(queue) = Capacity /\ queue' = queue)
            /\ (cpc[c] = "suspended" /\ cpc'[c] = "waiting") =>
                    /\ Len(queue) < Capacity
                    /\ queue' = Append(queue, ctid'[c])
                    /\ tasks'[ctid'[c]] =
                          [caller |-> c, idx |-> cidx[c], step |-> csteps[c][cidx[c]]]
            /\ (cpc[c] = "suspended" /\ Len(queue) = Capacity /\ poolRxOpen) =>
                    cpc'[c] \in {"suspended", "idle"}
            /\ (cpc[c] # "done" /\ cpc'[c] = "done"
                  /\ cret'[c] = ExecutionError("Task pool is shut down")) => ~poolRxOpen
         ]_vars
    /\ [][Len(queue') < Len(queue) =>
            \/ /\ queue' = Tail(queue)
               /\ \E w \in Workers :
                    wpc[w] = "recv" /\ wpc'[w] = "task" /\ wtask'[w] = Head(queue)
            \/ ~poolRxOpen'
         ]_vars

\* C9 witness: a caller whose send was suspended on the full queue has its task in the
\* queue now, after a worker took the task that filled it
C9_Witness ==
    \E c \in Callers :
        /\ cpc[c] = "waiting"
        /\ csusp[c]
        /\ queue = <<ctid[c]>>
        /\ \E w \in Workers : wpc[w] \in {"task", "exec"} /\ wtask[w] = ctid[c] - 1

\* C10 (the claim as stated): graceful drain.  Once shutdown() has returned, every worker
\* loop has exited and every task that was enqueued or in execution when shutdown() began
\* was executed and answered (or its reply channel dropped); a worker loop that exited
\* normally saw the queue closed and empty.
C10_GracefulDrain ==
    /\ sdPc = "returned" =>
          /\ \A w \in Workers : wpc[w] \in {"done", "panicked"}
          /\ \A t \in sdTasks :
                /\ t \in Range(execLog)
                /\ reply[t].vals # <<>> \/ reply[t].txDropped \/ reply[t].rxDropped
    /\ \A w \in Workers : wpc[w] = "done" => (~txAlive /\ queue = <<>>)

\* number of times the task t was taken to execution; number of places that hold it now
TimesExecuted(t) == Cardinality({k \in 1..Len(execLog) : execLog[k] = t})
TimesHeld(t) ==
    Cardinality({k \in 1..Len(queue) : queue[k] = t}) + Cardinality({w \in Workers : wtask[w] = t})
\* the submitter of t can observe an outcome: a value was sent or the Sender was dropped
HasOutcome(t) == reply[t].vals # <<>> \/ reply[t].txDropped

\* C11 (the claim as stated): every accepted task is dequeued by exactly one worker and
\* executed exactly once, and its submitter observes exactly one outcome: a task is never
\* in two places, never executed or answered twice, and a task whose outcome is available
\* to its submitter was executed exactly once.
C11_ExecutedExactlyOnce ==
    \A t \in 1..Len(tasks) :
        /\ TimesHeld(t) <= 1
        /\ TimesExecuted(t) <= 1
        /\ Len(reply[t].vals) <= 1
        /\ ~(reply[t].vals # <<>> /\ reply[t].txDropped)
        /\ HasOutcome(t) => TimesExecuted(t) = 1

\* C11 (amended): a task is dequeued by at most one worker, executed at most once and
\* answered at most once; a task answered with a value was executed exactly once; a task
\* that leaves the queue without being executed is one dropped with the receiver after
\* the last worker loop ended, and its submitter observes the one outcome "Worker
\* disconnected" (no value, Sender dropped).
C11_ExecutedAtMostOnce ==
    \A t \in 1..Len(tasks) :
        /\ TimesHeld(t) <= 1
        /\ TimesExecuted(t) <= 1
        /\ Len(reply[t].vals) <= 1
        /\ ~(reply[t].vals # <<>> /\ reply[t].txDropped)
        /\ reply[t].vals # <<>> => TimesExecuted(t) = 1
        /\ TimesHeld(t) = 0 =>
              \/ TimesExecuted(t) = 1 /\ (HasOutcome(t) \/ reply[t].rxDropped)
              \/ TimesExecuted(t) = 0 /\ ~poolRxOpen /\ reply[t].vals = <<>> /\ reply[t].txDropped

\* C11 witness: two tasks were executed, by different workers, and a submitter has the
\* value of its task
C11_Witness ==
    /\ Len(execLog) >= 2
    /\ \E c \in Callers : cpc[c] = "done" /\ cret[c].ok /\ reply[ctid[c]].vals = <<cret[c]>>
    /\ \E t \in 1..Len(tasks) : TimesExecuted(t) = 1 /\ reply[t].txDropped

\* the two pool-level errors of execute_step
PoolShutDown == ExecutionError("Task pool is shut down")
WorkerDisconnected == ExecutionError("Worker disconnected")

\* C12: execute_step returns "Task pool is shut down" exactly when no task was enqueued for
\* it because the queue was closed, and "Worker disconnected" exactly when its task was
\* enqueued and the reply Sender was dropped without a value.  A worker that panics while
\* other worker loops run drops only the Sender of its own task and leaves the queue open
\* and untouched; the queue stays open as long as a worker loop runs, and every task in
\* the queue eventually leaves it.
C12_PoolLevelErrors ==
    /\ [](\A c \in Callers :
            (cpc[c] = "done" /\ cop[c] = "step") =>
                /\ (cret[c] = PoolShutDown) <=> (ctid[c] = 0)
                /\ ctid[c] = 0 => ~poolRxOpen
                /\ (cret[c] = WorkerDisconnected) <=>
                      (ctid[c] # 0 /\ reply[ctid[c]].vals = <<>> /\ reply[ctid[c]].txDropped))
    /\ []((\E w \in Workers : wpc[w] \notin {"done", "panicked"}) => poolRxOpen)
    /\ [][\A w \in Workers :
            (wpc[w] = "exec" /\ wpc'[w] = "panicked" /\ OtherLiveWorkers(w) # {}) =>
                /\ queue' = queue
                /\ poolRxOpen'
                /\ \A t \in 1..Len(reply) : t # wtask[w] => reply'[t] = reply[t]
                /\ reply'[wtask[w]].txDropped
         ]_vars
    /\ \A t \in 1..MaxStepTasks :
          (t <= Len(tasks) /\ t \in Range(queue)) ~> (t \notin Range(queue))

\* C12 witness: a caller got "Worker disconnected" for the task a worker panicked on, and
\* a task enqueued later was answered with a value by another worker
C12_Witness ==
    \E c \in Callers :
        /\ cpc[c] = "done" /\ cop[c] = "step" /\ cret[c] = WorkerDisconnected
        /\ \E w \in Workers : wpc[w] = "panicked"
        /\ \E t \in 1..Len(tasks) : t > ctid[c] /\ reply[t].vals # <<>> /\ reply[t].vals[1].ok

\* C13: a tool execution failure (unknown tool, handler error) is the value the worker
\* sends on the task's reply channel, and execute_step returns it to the submitter; the
\* worker that sent it goes on to the next iteration of its loop, and the queue is left
\* open and untouched, so that the pool keeps accepting and executing tasks.
C13_ToolFailureIsData ==
    /\ [](\A c \in Callers :
            (cpc[c] = "done" /\ cop[c] = "step" /\ ~cret[c].ok
                /\ cret[c].err.type = "ToolError") =>
                /\ cret[c] \in ToolResults(csteps[c][1])
                /\ ctid[c] # 0
                /\ reply[ctid[c]].vals = <<cret[c]>>)
    /\ [][\A w \in Workers :
            (wpc[w] = "exec" /\ wpc'[w] # "exec" /\ reply'[wtask[w]].vals # <<>>
                /\ ~reply'[wtask[w]].vals[1].ok) =>
                /\ wpc'[w] = "idle"
                /\ rxLock' = 0 /\ agentLock' = 0
                /\ queue' = queue
                /\ poolRxOpen' = poolRxOpen
                /\ txAlive' = txAlive
                /\ \A t \in 1..Len(reply) : t # wtask[w] => reply'[t] = reply[t]
         ]_vars

\* C13 witness: after one worker panicked, the remaining worker answered a task with a
\* tool failure, which its submitter received, and then answered a later task with a value
C13_Witness ==
    \E c \in Callers :
        /\ cpc[c] = "done" /\ cop[c] = "step" /\ ~cret[c].ok
        /\ cret[c].err.type = "ToolError"
        /\ \E t0 \in 1..Len(tasks) : t0 < ctid[c] /\ reply[t0].txDropped
        /\ \E t2 \in 1..Len(tasks) :
              t2 > ctid[c] /\ reply[t2].vals # <<>> /\ reply[t2].vals[1].ok

\* C14: for a registered local tool, what execute_step returns from the worker that ran
\* the step is a result of the registry's execute_tool on the same name and params; for
\* the echo tool it is the input {text}.
C14_PoolAgreesWithRegistry ==
    \A c \in Callers :
        (cpc[c] = "done" /\ cop[c] = "step" /\ csteps[c][1].tool_name \in local_tools
            /\ ctid[c] # 0 /\ reply[ctid[c]].vals # <<>>) =>
            /\ cret[c] \in ToolResults(csteps[c][1])
            /\ csteps[c][1].tool_name = "echo" =>
                  cret[c] = Ok([text |-> csteps[c][1].params.text])

\* C14 witness: two callers have the results of two different local steps, one of them
\* the echo of "two"
C14_Witness ==
    \E c1, c2 \in Callers :
        /\ c1 # c2
        /\ cpc[c1] = "done" /\ cop[c1] = "step" /\ cpc[c2] = "done" /\ cop[c2] = "step"
        /\ csteps[c1][1] = [tool_name |-> "echo", params |-> [text |-> "two"]]
        /\ cret[c1] = Ok([text |-> "two"])
        /\ csteps[c2][1].tool_name \in local_tools
        /\ csteps[c2][1] # csteps[c1][1]
        /\ cret[c2].ok

(***************************************************************************)
(* Tool registry: the claims.                                              *)
(***************************************************************************)
\* what a call of remote tool tool_name on server_name looks like
RemoteCall(server_name, tool_name) ==
    [kind |-> "remote", server_name |-> server_name, tool_name |-> tool_name]
\* the positions of the catalog whose entry is named `name`
EntriesNamed(name) == {i \in 1..Len(available_tools) : available_tools[i].name = name}
\* a list without repetition
NoRepeat(list) == \A i, j \in 1..Len(list) : i # j => list[i] # list[j]

\* C15: local shadows remote: in every state of the registry, execute_tool on a name that
\* has a local handler reaches that handler, never a remote server, also when the remote
\* map holds the same name.
C15_LocalShadowsRemote ==
    /\ \A name \in reg_local_tools : Resolve(name) = [kind |-> "local", name |-> name]
    /\ last_call.name \in reg_local_tools =>
          last_call.outcome = [kind |-> "local", name |-> last_call.name]

\* C15 witness: execute_tool was called with a name that is both a local handler and a
\* key of the remote map whose server is active, and reached the local handler
C15_Witness ==
    /\ last_call.name \in reg_local_tools
    /\ last_call.name \in DOMAIN reg_mcp_tool_map
    /\ reg_mcp_tool_map[last_call.name].server_name \in active_servers
    /\ last_call.outcome.kind = "local"

\* C16 (the claim as stated): get_tools_names() holds the name of each registered local
\* tool exactly once, and no two entries of the catalog carry the same name.
C16_CatalogNamesUnique ==
    /\ \A name \in reg_local_tools : Cardinality(EntriesNamed(name)) = 1
    /\ NoRepeat(get_tools_names)

\* C17 (the claim as stated): after a refresh, a remote tool T of server S whose name is
\* the name of a registered local tool is keyed and listed as "S::T", and not under the
\* bare name T; so is the tool T of the server enumerated second when two servers
\* report T.
C17_CollisionsAreNamespaced ==
    refreshed =>
        /\ \A s \in active_servers : \A i \in 1..Len(server_tools[s]) :
              LET T == server_tools[s][i] IN
              T \in reg_local_tools =>
                  /\ Namespaced(s, T) \in DOMAIN reg_mcp_tool_map
                  /\ T \notin DOMAIN reg_mcp_tool_map
                  /\ \A k \in EntriesNamed(T) : available_tools[k].kind = "Local"
        /\ \A j \in 2..Len(keys_order) : \A i \in 1..Len(server_tools[keys_order[j]]) :
              LET T == server_tools[keys_order[j]][i] IN
              T \in Range(server_tools[keys_order[1]]) =>
                  /\ Namespaced(keys_order[j], T) \in DOMAIN reg_mcp_tool_map
                  /\ EntriesNamed(Namespaced(keys_order[j], T)) # {}

\* C18: when the two active servers both report a tool T (each once, T not a local name),
\* after a refresh the catalog has exactly one entry named T and exactly one named
\* "S::T" for one of the servers S; execute_tool on "S::T" calls tool T on S, and
\* execute_tool on T calls tool T on the other server.
C18_NamespacedRouting ==
    \A T \in ToolNames :
        (/\ refreshed
         /\ active_servers = ServerNames
         /\ T \notin reg_local_tools
         /\ \A s \in ServerNames : NoRepeat(server_tools[s]) /\ T \in Range(server_tools[s])) =>
            \E S \in ServerNames : \A other \in ServerNames \ {S} :
                /\ Cardinality(EntriesNamed(T)) = 1
                /\ Cardinality(EntriesNamed(Namespaced(S, T))) = 1
                /\ EntriesNamed(Namespaced(other, T)) = {}
                /\ Resolve(Namespaced(S, T)) = RemoteCall(S, T)
                /\ Resolve(T) = RemoteCall(other, T)
                /\ last_call.name = Namespaced(S, T) => last_call.outcome = RemoteCall(S, T)
                /\ last_call.name = T => last_call.outcome = RemoteCall(other, T)

\* C18 witness: both servers report t, and execute_tool on "B::t" called t on B
C18_Witness ==
    /\ refreshed
    /\ active_servers = ServerNames
    /\ \A s \in ServerNames : NoRepeat(server_tools[s]) /\ "t" \in Range(server_tools[s])
    /\ "t" \notin reg_local_tools
    /\ last_call.name = Namespaced("B", "t")
    /\ last_call.outcome = RemoteCall("B", "t")

\* C19 (the claim as stated): the mapping a refresh produces does not depend on the order
\* in which the active servers are enumerated: it is the mapping the discovery yields
\* for every enumeration order of the same servers reporting the same tools.
C19_ResolutionIsDeterministic ==
    refreshed =>
        \A names \in KeyOrders(active_servers) : Discovered(names).map = reg_mcp_tool_map

\* the number of tools the servers of `servers` report
RECURSIVE ReportedCount(_)
ReportedCount(servers) ==
    IF servers = {} THEN 0
    ELSE LET s == CHOOSE x \in servers : TRUE
         IN  Len(server_tools[s]) + ReportedCount(servers \ {s})

\* C20 (the claim as stated): after a refresh every reported tool has its own key in the
\* remote map and its own distinctly named catalog entry: the number of keys is the
\* number of tools reported.
C20_NoSilentOverwrite ==
    refreshed =>
        /\ Cardinality(DOMAIN reg_mcp_tool_map) = ReportedCount(active_servers)
        /\ \A i, j \in 1..Len(available_tools) :
              (i # j /\ available_tools[i].kind = "MCP" /\ available_tools[j].kind = "MCP") =>
                  available_tools[i].name # available_tools[j].name

(***************************************************************************)
(* Server manager: the claims.                                             *)
(***************************************************************************)
\* C21 (the claim as stated): when the list_tools request of an active server fails,
\* get_server_tools returns an error for it, and the refresh_mcp_tools that enumerated
\* the server returned that error.
C21_ListingFailurePropagates ==
    /\ \A s \in active_servers \cap list_fails : ~get_server_tools(s).ok
    /\ (refreshed /\ active_servers \cap list_fails # {}) => ~refresh_ret.ok

\* C22 (the claim as stated): a start_server that could not launch its server returned an
\* error value, it did not panic, and it recorded no connection: the name is active
\* afterwards only if it was active before.
C22_LaunchFailureIsAnError ==
    (last_mgr.op = "start_server" /\ last_mgr.result # Ok(<<>>)) =>
        /\ "panicked" \notin DOMAIN last_mgr.result
        /\ ~last_mgr.result.ok
        /\ last_mgr.name \in active_servers => last_mgr.was_active

\* C23: stop_server is idempotent: a stop_server on a name without a connection (never
\* started, or stopped by the call before) returns Ok and leaves the active servers and
\* their connections as they were.
C23_StopIsIdempotent ==
    [][(/\ nRegOps' # nRegOps
        /\ last_mgr'.op = "stop_server"
        /\ last_mgr'.name \notin active_servers) =>
           /\ last_mgr'.result = Ok(<<>>)
           /\ ~last_mgr'.was_active
           /\ active_servers' = active_servers
           /\ connection_of' = connection_of
           /\ conn_state' = conn_state
           /\ server_tools' = server_tools]_vars

\* C23 witness: a server was started, stopped, and stopped again by the next call, which
\* returned Ok
C23_Witness ==
    /\ last_mgr.op = "stop_server"
    /\ last_mgr.again
    /\ ~last_mgr.was_active
    /\ last_mgr.result = Ok(<<>>)
    /\ conn_state # <<>>
    /\ active_servers = {}

\* C24 (the claim as stated): every connection start_server ever recorded is still in the
\* map under its name, or stop_server removed it and called cancel() on it.
C24_NoConnectionOrphaned ==
    \A id \in 1..Len(conn_state) :
        \/ \E s \in active_servers : connection_of[s] = id
        \/ conn_state[id] \in {"cancelled", "cancel_failed"}

(***************************************************************************)
(* Tasks that share one manager and one registry: the claims.              *)
(***************************************************************************)
\* the server the registry routes tool_name to, "" when it is not a remote tool of an
\* active server
TargetServer(tool_name) ==
    IF Resolve(tool_name).kind = "remote" THEN Resolve(tool_name).server_name ELSE ""

\* C25 (the claim as stated): executions on different servers proceed in parallel: while
\* one execute_tool is in progress on a server, an execute_tool that targets a tool of
\* another server and waits for its first guard finds that guard free, so that both calls
\* can be in progress at the same time.
C25_DifferentServersInParallel ==
    \A e1, e2 \in Executors :
        (/\ e1 # e2
         /\ epc[e1] = "calling" /\ eseen[e1].kind = "remote"
         /\ epc[e2] = "lock_manager"
         /\ TargetServer(etool[e2]) \notin {"", eseen[e1].server_name}) => mgrLock = 0

\* C25: what the code guarantees instead: at most one execute_tool of the tasks that share
\* the manager is past its guards at any time, whatever the servers
AgentOneCallAtATime ==
    \A e1, e2 \in Executors :
        (epc[e1] = "calling" /\ epc[e2] = "calling") => e1 = e2

\* the refresh has cleared the remote entries and has not yet returned
RefreshUnderWay == rpc = "discover"

\* C26: registry reads and writes serialize: no execute_tool looks a name up in the
\* registry while a refresh is between clearing the remote map and returning, and no
\* refresh changes the registry while an execute_tool is between its lookup and its
\* return.
C26_ReadsAndWritesSerialize ==
    [][/\ \A e \in Executors :
             (epc[e] # "calling" /\ epc'[e] = "calling") => ~RefreshUnderWay
       /\ (reg_mcp_tool_map' # reg_mcp_tool_map \/ available_tools' # available_tools) =>
             \A e \in Executors : epc[e] # "calling"]_vars

\* C26 witness: a refresh has cleared the remote map and has servers left to visit, while
\* an execute_tool for a tool that one of these servers reports is waiting for its guard
C26_Witness ==
    /\ RefreshUnderWay
    /\ rnames # <<>>
    /\ reg_mcp_tool_map = <<>>
    /\ \E e \in Executors :
          /\ epc[e] = "lock_manager"
          /\ \E i \in 1..Len(rnames) : etool[e] \in Range(server_tools[rnames[i]])

(***************************************************************************)
(* Actor lifecycle and ActorSystem: the claims.                            *)
(***************************************************************************)
\* C27: initialize() is called exactly once, before any message is received; when it
\* fails the task ends at once: no message is ever received or passed to handle_message,
\* and shutdown() is not called.
C27_FailedInitializeEndsTask ==
    /\ initCalls <= 1
    /\ initResult = "pending" <=> initCalls = 0
    /\ (recvLog # <<>> \/ apc \in {"recv", "handling", "shutdown"}) =>
          (initCalls = 1 /\ initResult = "ok")
    /\ initResult = "failed" =>
          /\ apc = "done"
          /\ recvLog = <<>>
          /\ handledLog = <<>>
          /\ shutdownCalls = 0

\* C27 witness: messages were enqueued, initialize() failed, and none was handled
C27_Witness ==
    /\ initResult = "failed"
    /\ Len(sent) >= 2
    /\ handledLog = <<>>
    /\ apc = "done"

\* C28 (the claim as stated): after initialize() failed a send still succeeds and a call
\* never returns: no send and no call ends with an error.
C28_CallersHangAfterFailedInit ==
    initResult = "failed" => \A s \in Senders : sres[s].kind # "err"

\* C28 (amended): after initialize() failed the task has ended and dropped its receiver:
\* no message enters the inbox any more, no sender starts waiting, whatever a send or a
\* call returns from then on is an error, and every call that was waiting when
\* initialize() failed returns (with the error of the dropped reply channel).
C28_FailedInitializeFailsCallers ==
    /\ [][initResult = "failed" =>
             /\ inbox' = <<>>
             /\ \A s \in Senders :
                   /\ spc'[s] = "waiting" => spc[s] = "waiting"
                   /\ sres'[s] # sres[s] => sres'[s].kind = "err"]_vars
    /\ \A s \in Senders : (initResult = "failed" /\ spc[s] = "waiting") ~> (spc[s] = "idle")

\* C28 witness: initialize() failed; a call enqueued before the failure returned "Failed
\* to receive response", and a call made after it returned "Failed to send message"
C28_Witness ==
    /\ initResult = "failed"
    /\ \E s1, s2 \in Senders :
          /\ sres[s1] = ErrResult("Failed to receive response")
          /\ sres[s2] = ErrResult("Failed to send message")
          /\ spc[s1] = "idle" /\ spc[s2] = "idle"

\* C29: a handle_message that returns an error does not end the actor task: when
\* handle_message returns, whatever its result, the task is back at recv() with its
\* receiver open, the inbox untouched and shutdown() not called, so that the messages
\* behind the failing one are received next, in order.
C29_HandlerErrorKeepsActorAlive ==
    [][(apc = "handling" /\ apc' # "handling") =>
          /\ apc' = "recv"
          /\ rxOpen'
          /\ inbox' = inbox
          /\ shutdownCalls' = shutdownCalls]_vars

\* C29 witness: the call of one sender ended with the error of a reply channel dropped
\* by a failing handle_message (the receiver is still open), and the actor is handling
\* the message of another sender, enqueued behind it
C29_Witness ==
    /\ rxOpen
    /\ apc = "handling"
    /\ \E s \in Senders :
          /\ s # cur.respond_to
          /\ spc[s] = "idle"
          /\ sres[s] = ErrResult("Failed to receive response")

SuccessfulRefresh == refreshed' /\ nRegOps' = nRegOps + 1 /\ refresh_ret'.ok

\* the Local descriptors of a catalog, in their order
LocalPart(avail) == SelectSeq(avail, LAMBDA d : d.kind = "Local")
McpPart(avail) == SelectSeq(avail, LAMBDA d : d.kind = "MCP")

\* whether `tool_name` is in the list the server reports
Reports(server_name, tool_name) ==
    \E i \in 1..Len(server_tools[server_name]) : server_tools[server_name][i] = tool_name

\* C33: a successful refresh_mcp_tools rebuilds the remote view from scratch and touches
\* nothing else: after it the remote map and the MCP entries of the catalog hold only tools
\* of servers active at the refresh (nothing of an earlier refresh or of a stopped server
\* survives, nothing accumulates), and the local handlers and the Local entries of the
\* catalog, in their order, are as before.
C33_RefreshRebuildsRemoteView ==
    [][SuccessfulRefresh =>
          /\ \A k \in DOMAIN reg_mcp_tool_map' :
                /\ reg_mcp_tool_map'[k].server_name \in active_servers
                /\ Reports(reg_mcp_tool_map'[k].server_name, reg_mcp_tool_map'[k].tool_name)
          /\ \A i \in 1..Len(available_tools') :
                available_tools'[i].kind = "MCP" =>
                   available_tools'[i].server_name \in active_servers
          /\ Len(McpPart(available_tools')) = ReportedCount(active_servers)
          /\ LocalPart(available_tools') = LocalPart(available_tools)
          /\ reg_local_tools' = reg_local_tools
          /\ reg_local_handlers' = reg_local_handlers
          /\ UNCHANGED <<active_servers, server_tools, connection_of, conn_state>>]_vars

\* a refresh found the entry of a stopped server, left by an earlier refresh, next to a
\* local tool, and dropped it
C33_Witness ==
    /\ refreshed /\ refresh_ret.ok
    /\ reg_local_tools # {}
    /\ \E k \in DOMAIN before_refresh :
          /\ before_refresh[k].server_name \notin active_servers
          /\ k \notin DOMAIN reg_mcp_tool_map

\* the positions of the catalog that hold the Local descriptor of a tool named `name`
LocalEntriesNamed(avail, name) == {i \in LocalEntries(avail) : avail[i].name = name}

\* the ordinal, among the registrations, of the last one under `name`
LastRegistration(avail, name) ==
    LET last == CHOOSE i \in LocalEntriesNamed(avail, name) :
                    \A j \in LocalEntriesNamed(avail, name) : j <= i
    IN  Cardinality({j \in LocalEntries(avail) : j <= last})

\* C34: when a local tool is registered under a name that is already registered, the
\* handler registered later is the one execute_tool runs, while the Local descriptors of
\* all the registrations stay in the catalog (the name is listed once per registration).
C34_LaterHandlerWinsBothListed ==
    [][\A name \in ToolNames :
          /\ Cardinality(LocalEntriesNamed(available_tools', name))
                >= Cardinality(LocalEntriesNamed(available_tools, name))
          /\ name \in reg_local_tools' =>
                /\ LocalEntriesNamed(available_tools', name) # {}
                /\ reg_local_handlers'[name] = LastRegistration(available_tools', name)
                /\ last_call'.name = name =>
                      last_call'.handler = LastRegistration(available_tools', name)
          /\ (name \in reg_local_tools /\ name \in reg_local_tools'
                /\ reg_local_handlers'[name] # reg_local_handlers[name]) =>
                /\ Cardinality(LocalEntriesNamed(available_tools', name))
                      = Cardinality(LocalEntriesNamed(available_tools, name)) + 1
                /\ reg_local_handlers'[name] > reg_local_handlers[name]]_vars

\* "t" was registered twice, is listed twice, and a call of "t" ran the second handler
C34_Witness ==
    /\ Cardinality(LocalEntriesNamed(available_tools, "t")) = 2
    /\ last_call.name = "t"
    /\ last_call.handler = 2
    /\ get_tools_names = <<"t", "t">>

\* C35: execute_tool with a name that is neither a local handler nor a key of the remote
\* map returns the tool error "Tool '<name>' not found"; no handler is invoked, no server
\* is called and the ExecutionContext is not modified.
C35_UnknownNameIsToolError ==
    \A name \in CallNames :
       (last_call.name = name /\ name \notin reg_local_tools
           /\ name \notin DOMAIN reg_mcp_tool_map) =>
          /\ last_call.error = [ok |-> FALSE,
                                err |-> [type |-> "ToolError",
                                         msg |-> "Tool '" \o name \o "' not found"]]
          /\ last_call.handler = 0
          /\ last_call.outcome.kind \notin {"local", "remote", "ServerNotFound"}
          /\ last_call.writes = {}

\* "u" was called while only "t" was known, as a local tool and as a tool of server "A"
C35_Witness ==
    /\ last_call.name = "u"
    /\ last_call.outcome.kind = "not_found"
    /\ reg_local_tools = {"t"}
    /\ "A::t" \in DOMAIN reg_mcp_tool_map \/ "t" \in DOMAIN reg_mcp_tool_map

\* the keys of the remote map that reach a server that is no longer active
StaleKeys(map, locals, active) ==
    {k \in DOMAIN map : k \notin locals /\ map[k].server_name \notin active}

\* C36: a remote tool stays resolvable until the next refresh: once refresh_mcp_tools has
\* discovered tool T on server S and stop_server(S) has removed S, execute_tool(T) returns
\* ServerNotFound: not "tool not found", no other server is called, and the call changes
\* neither the registry nor the active servers.
C36_StoppedServerIsServerNotFound ==
    [][(last_call' # last_call /\ last_call'.name # "") =>
          /\ UNCHANGED <<reg_local_tools, reg_local_handlers, reg_mcp_tool_map,
                         available_tools, active_servers, server_tools, connection_of,
                         conn_state>>
          /\ last_call'.name \in StaleKeys(reg_mcp_tool_map, reg_local_tools, active_servers) =>
                /\ last_call'.error = [ok |-> FALSE,
                                       err |-> [type |-> "ServerNotFound", msg |-> ""]]
                /\ last_call'.outcome = [kind |-> "ServerNotFound"]
                /\ last_call'.handler = 0]_vars

\* "t" was discovered on "A" and on "B", "A" was stopped, and the call of "t" failed with
\* ServerNotFound although "B" is active and reports "t"
C36_Witness ==
    /\ last_call.name = "t"
    /\ last_call.outcome.kind = "ServerNotFound"
    /\ "t" \in DOMAIN reg_mcp_tool_map
    /\ reg_mcp_tool_map["t"].server_name = "A"
    /\ active_servers = {"B"}
    /\ "B::t" \in DOMAIN reg_mcp_tool_map

\* ---------------------------------------------------------------------------------------
\* The two shared guards
\* ---------------------------------------------------------------------------------------

\* task `t` holds the registry guard and waits for the manager guard
HoldsRegistryWaitsManager(t) ==
    /\ regLock = t
    /\ t = Refresher /\ rpc = "lock_manager"
    /\ mgrLock \notin {0, t}

\* task `t` holds the manager guard and waits for the registry guard
HoldsManagerWaitsRegistry(t) ==
    /\ mgrLock = t
    /\ t \in Executors /\ epc[t] = "lock_registry"
    /\ regLock \notin {0, t}

LockTasks == Executors \cup {Refresher, Requester}

\* C38: no lock-order deadlock on the two shared guards: in no reachable state does one
\* task hold the registry guard while it waits for the manager guard and another task
\* hold the manager guard while it waits for the registry guard.
C38_NoLockOrderDeadlock ==
    ~ \E t1, t2 \in LockTasks :
         t1 # t2 /\ HoldsRegistryWaitsManager(t1) /\ HoldsManagerWaitsRegistry(t2)

\* both lock orders have been used, and the guards are contended: after the refresh of
\* the constructor took registry then manager, an executor holds the manager and waits
\* for the registry that process_request holds, while the other executor waits for the
\* manager
C38_Witness ==
    /\ refreshed
    /\ nRefreshes = 1
    /\ \E e1, e2 \in Executors :
          /\ HoldsManagerWaitsRegistry(e1)
          /\ regLock = Requester
          /\ epc[e2] = "lock_manager"

\* ---------------------------------------------------------------------------------------
\* The actor's shutdown hook
\* ---------------------------------------------------------------------------------------

\* the positions of recvLog at which rx.recv() returned a Message::Shutdown
ShutdownsReceived == {i \in 1..Len(recvLog) : sent[recvLog[i]].kind = "Shutdown"}

\* C39: actor.shutdown() runs at most once, and only as the direct consequence of
\* dequeuing a Shutdown message: when the loop ends because the inbox closed (every handle
\* dropped, the one of the system's map included) or because initialize failed, shutdown()
\* is never invoked; and a Shutdown is never passed to handle_message.
C39_ShutdownHookOnlyOnShutdownMessage ==
    /\ shutdownCalls <= 1
    /\ shutdownCalls = 1 <=> (apc = "done" /\ ShutdownsReceived # {})
    /\ apc = "shutdown" <=> (shutdownCalls = 0 /\ ShutdownsReceived # {})
    /\ ShutdownsReceived \subseteq {Len(recvLog)}
    /\ initResult = "failed" => shutdownCalls = 0 /\ recvLog = <<>>
    /\ \A i \in 1..Len(handledLog) : sent[handledLog[i]].kind # "Shutdown"

\* the task has ended because the inbox closed: it handled a message, every handle was
\* dropped, no Shutdown was ever received, and shutdown() did not run
C39_Witness ==
    /\ apc = "done"
    /\ initResult = "ok"
    /\ handledLog # <<>>
    /\ handles = {}
    /\ actors = {}
    /\ ShutdownsReceived = {}
    /\ shutdownCalls = 0

\* ---------------------------------------------------------------------------------------
\* A pool without workers
\* ---------------------------------------------------------------------------------------

C37_ExecuteStepReturns ==
    \A c \in Callers :
       (cpc[c] \in {"waiting", "suspended"}) ~>
          (cpc[c] = "done" /\ cret[c] # NoReturn)

\* a call that was suspended on the full queue and then waited for its reply has
\* returned, after a worker had panicked on the task of another call
C37_Witness ==
    \E c \in Callers :
       /\ cpc[c] = "done"
       /\ csusp[c]
       /\ ctid[c] # 0
       /\ cret[c] # NoReturn
       /\ \E w \in Workers : wpc[w] = "panicked"

\* ---------------------------------------------------------------------------------------
\* The execution context of the steps of a request
\* ---------------------------------------------------------------------------------------

\* C32: the execution context is maintained across the steps the pool executes: a key that
\* a handler writes while executing one step is readable by the handler of a later step of
\* the same request.
C32_ContextCarriedAcrossSteps ==
    \A i, j \in 1..Len(ctxLog) :
       (/\ i < j
        /\ tasks[ctxLog[i].task].caller = tasks[ctxLog[j].task].caller
        /\ cop[tasks[ctxLog[i].task].caller] = "parallel"
        /\ tasks[ctxLog[i].task].idx < tasks[ctxLog[j].task].idx) =>
          ctxLog[i].left \subseteq ctxLog[j].found

\* every handler starts on an empty context of its own
EveryStepStartsOnEmptyContext ==
    \A i \in 1..Len(ctxLog) : ctxLog[i].found = {}

\* ---------------------------------------------------------------------------------------
\* The generic TaskPool
\* ---------------------------------------------------------------------------------------

\* how often the task t was passed to the processor
GenericTimesProcessed(t) == Cardinality({k \in 1..Len(gprocessed) : gprocessed[k].task = t})

\* whether the task t is in the channel, or taken by a worker that has yet to call the
\* processor (1) or not (0)
GenericTimesQueued(t) == Cardinality({k \in 1..Len(gqueue) : gqueue[k] = t})
GenericTimesHeld(t) == Cardinality({w \in Workers : gpc[w] = "proc" /\ gtask[w] = t})

\* the sum of the tasks the processor returned from
RECURSIVE SumProcessed(_)
SumProcessed(k) ==
    IF k = 0 THEN 0
    ELSE SumProcessed(k - 1)
            + (IF ProcessorPanics(gtasks[gprocessed[k].task])
               THEN 0
               ELSE gtasks[gprocessed[k].task])

\* C31 as stated: every task for which execute returned Ok is passed to the processor
\* exactly once: at any time it is in the channel, or held by the one worker that took it,
\* or was processed once; it is never lost and never processed twice.
C31_ProcessedExactlyOnce ==
    \A t \in 1..Len(gtasks) : GenericTimesQueued(t) + GenericTimesHeld(t) + GenericTimesProcessed(t) = 1

\* C31, amended: every task for which execute returned Ok is passed to the processor at
\* most once, whichever worker takes it, and exactly once as long as a worker loop has
\* not ended by a panic of the processor with the task still in the channel; the counter
\* is the sum of the processed tasks: 8 for the tasks 5 and 3.
C31_ProcessedAtMostOnce ==
    /\ \A t \in 1..Len(gtasks) :
          /\ GenericTimesQueued(t) + GenericTimesHeld(t) + GenericTimesProcessed(t) <= 1
          /\ (\E w \in Workers : gpc[w] # "panicked") =>
                GenericTimesQueued(t) + GenericTimesHeld(t) + GenericTimesProcessed(t) = 1
    /\ gcounter = SumProcessed(Len(gprocessed))
    /\ (gtasks = <<5, 3>> /\ Len(gprocessed) = 2) => gcounter = 8

\* the test: 5 and 3 were executed, each processed once, by two different workers, the
\* total is 8 and shutdown has returned
C31_Witness ==
    /\ gtasks = <<5, 3>>
    /\ Len(gprocessed) = 2
    /\ gprocessed[1].worker # gprocessed[2].worker
    /\ gcounter = 8
    /\ gsd = "returned"

=============================================================================
